---- MODULE Spec2Model ----
(***************************************************************************)
(* State-machine model of the space-invaders-js core:                      *)
(*   - ObjectPool       (src/src/utils/ObjectPool.js)         SpecPool     *)
(*   - GameLoop         (src/src/core/GameLoop.js)            SpecLoop     *)
(*   - Canvas, Renderer (src/src/core/Canvas.js)              SpecSched    *)
(*   - ParticleSystem   (src/unnamed/part_000)                SpecPs       *)
(*   - pooled Particle  (src/unnamed/part_000)                SpecParticle *)
(*   - ParticleEmitter  (src/src/effects/ParticleEmitter.js)  SpecEmitter  *)
(* Each component has its own specification; the variables of the other   *)
(* components are held constant in it.                                     *)
(***************************************************************************)
EXTENDS Integers, Sequences, FiniteSets, TLC

VARIABLES
    objectPool,     \* the ObjectPool instance: its private fields and the pooled objects' fields
    poolConfig,     \* the config object the constructor was called with
    poolLast,       \* the last ObjectPool call: operation, argument, outcome
    poolOps,        \* number of ObjectPool calls made so far
    gameLoop,       \* the GameLoop instance: its timing fields and running flag
    now,            \* the host's clock (performance.now()), in ticks
    pendingFrames,  \* requestAnimationFrame callbacks of _loop requested and not yet fired
    hidden,         \* document.hidden
    loopLast,       \* the last GameLoop step: operation, the calls it made, outcome
    loopSteps,      \* number of GameLoop steps taken so far
    clockSteps,     \* number of clock advances among them
    canvas,         \* the Canvas instance: its game loop fields
    renderer,       \* the Renderer instance: its game loop fields
    schedEnv,       \* the host of Canvas and Renderer: clock, requested frames, step counts
    schedLast,      \* the last Canvas or Renderer step: operation, the calls it made, outcome
    particleSystem, \* the ParticleSystem instance: config, live particles, animation fields
    psEnv,          \* the host of the ParticleSystem: clock (ms), requested frames, step count
    psLast,         \* the last ParticleSystem step: operation, requested count, calls made
    particlePool,   \* Particle.#pool: the recycled instances, an array used as a stack
    particleObjs,   \* every pooled-Particle instance constructed so far, by instance number
    particleFed,    \* per instance, the sum of the deltas passed to update since its last init
    particleLast,   \* the last Particle call: operation, instance, argument, outcome
    particleOps,    \* number of Particle calls made so far
    emitter,        \* the ParticleEmitter instance: lifetime, particles, isActive, lastUpdate
    emitterEnv,     \* the host of the ParticleEmitter: clock (ms), requested frames, step count
    emitterLast,    \* the last ParticleEmitter step: operation, argument, the delta it
                    \* passed to update if it called update
    audioManager,   \* the AudioManager instance: _audioBuffers, _activeAudio, disposed
    audioEnv,       \* the host of the AudioManager: clock (ms), sources created, step count
    audioLast,      \* the last AudioManager step: operation, the calls it made, the size of
                    \* _activeAudio before it
    audioSettings,  \* the AudioSettings singleton: this.settings
    localStorage,   \* the browser's localStorage: for each key the string stored, if any
    settingsLast,   \* the last AudioSettings call: operation, setting, value, outcome
    settingsSteps,  \* number of AudioSettings calls made so far
    music,          \* the BackgroundMusic instance: #currentTrack, #currentTrackUrl, #isPlaying
    musicTracks,    \* the Audio elements created so far: url and playback state
    musicTasks,     \* the play() and stop() calls that are waiting at an await
    musicCalls,     \* number of play, stop and dispose calls made so far
    loopHistory     \* what happened to the GameLoop earlier: whether a callback threw since
                    \* the caller last called start(), whether the page has been hidden
                    \* for some of the time since lastTime was last set, and whether the
                    \* loop was running when the page was last hidden and the caller has
                    \* not called stop() since

poolVars == <<objectPool, poolConfig, poolLast, poolOps>>

loopVars == <<gameLoop, now, pendingFrames, hidden, loopLast, loopSteps, clockSteps, loopHistory>>

schedVars == <<canvas, renderer, schedEnv, schedLast>>

psVars == <<particleSystem, psEnv, psLast>>

particleVars == <<particlePool, particleObjs, particleFed, particleLast, particleOps>>

emitterVars == <<emitter, emitterEnv, emitterLast>>

audioVars == <<audioManager, audioEnv, audioLast>>

settingsVars == <<audioSettings, localStorage, settingsLast, settingsSteps>>

musicVars == <<music, musicTracks, musicTasks, musicCalls>>

vars == <<objectPool, poolConfig, poolLast, poolOps,
          gameLoop, now, pendingFrames, hidden, loopLast, loopSteps, clockSteps,
          loopHistory, canvas, renderer, schedEnv, schedLast,
          particleSystem, psEnv, psLast,
          particlePool, particleObjs, particleFed, particleLast, particleOps,
          emitter, emitterEnv, emitterLast,
          audioManager, audioEnv, audioLast,
          audioSettings, localStorage, settingsLast, settingsSteps,
          music, musicTracks, musicTasks, musicCalls>>

\* everything but one component
outsidePool == <<loopVars, schedVars, psVars, particleVars, emitterVars, audioVars, settingsVars, musicVars>>

outsideLoop == <<poolVars, schedVars, psVars, particleVars, emitterVars, audioVars, settingsVars, musicVars>>

outsideSched == <<poolVars, loopVars, psVars, particleVars, emitterVars, audioVars, settingsVars, musicVars>>

outsidePs == <<poolVars, loopVars, schedVars, particleVars, emitterVars, audioVars, settingsVars, musicVars>>

outsideParticle == <<poolVars, loopVars, schedVars, psVars, emitterVars, audioVars, settingsVars, musicVars>>

outsideEmitter == <<poolVars, loopVars, schedVars, psVars, particleVars, audioVars, settingsVars, musicVars>>

outsideAudio == <<poolVars, loopVars, schedVars, psVars, particleVars, emitterVars, settingsVars, musicVars>>

outsideSettings == <<poolVars, loopVars, schedVars, psVars, particleVars, emitterVars, audioVars, musicVars>>

outsideMusic == <<poolVars, loopVars, schedVars, psVars, particleVars, emitterVars, audioVars, settingsVars>>

(***************************************************************************)
(* Bounds of the model                                                     *)
(***************************************************************************)
\* calls made on one pool in one behaviour
MaxPoolOps == 6
\* how many of the most recently freed instances a caller may try to release again
MaxFreeProbe == 2
\* GameLoop steps (calls, frames, clock advances) in one behaviour
MaxLoopSteps == 7
\* clock advances among them
MaxClockSteps == 3
\* Canvas and Renderer steps (calls, frames, clock advances) in one behaviour
MaxSchedSteps == 6
\* ParticleSystem steps (calls, frames, clock advances) in one behaviour
MaxPsSteps == 4
\* calls made on the pooled Particle class in one behaviour
MaxParticleOps == 4
\* pooled Particle instances constructed in one behaviour
MaxParticleObjs == 2
\* ParticleEmitter steps (calls, frames, clock advances) in one behaviour
MaxEmitterSteps == 4

\* SpecEmitterLive: the number of emit and stop calls, and the time (ms) at
\* which the clock stops
MaxLiveCalls == 2

LiveHorizon == 100
\* AudioManager steps (calls, events, clock advances) in one behaviour, and how
\* many of them may be clock advances
MaxAudioSteps == 12

MaxAudioClock == 2
\* AudioSettings calls in one behaviour
MaxSettingsSteps == 3
\* BackgroundMusic: play, stop and dispose calls in one behaviour
MaxMusicCalls == 3

(***************************************************************************)
(* Helpers                                                                 *)
(***************************************************************************)
Max(a, b) == IF a >= b THEN a ELSE b

Min(a, b) == IF a <= b THEN a ELSE b

\* JavaScript `v || d` on a number: 0 and undefined (both modelled as 0) are falsy
OrDefault(v, d) == IF v = 0 THEN d ELSE v

SeqToSet(s) == {s[i] : i \in 1..Len(s)}

\* Set.prototype.delete on an insertion-ordered Set
SeqRemove(s, e) == SelectSeq(s, LAMBDA y : y # e)

\* Set.prototype.add on an insertion-ordered Set
SeqAdd(s, e) == IF e \in SeqToSet(s) THEN s ELSE Append(s, e)

(***************************************************************************)
(* ObjectPool                                                              *)
(*                                                                         *)
(* A pooled object is identified by the order in which the factory made it *)
(* (1, 2, ...); it has one observable field x, which the factory sets to   *)
(* FieldDefault and which a caller may overwrite while it holds the object.*)
(* _pool is an array used as a stack, _activeObjects a Set, modelled as    *)
(* the sequence of its elements in insertion order (the order in which     *)
(* releaseAll iterates).                                                   *)
(***************************************************************************)
DEFAULT_INITIAL_SIZE == 100

DEFAULT_MAX_SIZE == 1000

\* the value the test factory gives the fields x, y
FieldDefault == 0

\* the value the test writes into a held object
FieldDirty == 100

\* this._initialSize = Math.max(0, config.initialSize || 100)
InitialSizeOf(cfg) == Max(0, OrDefault(cfg.initialSize, DEFAULT_INITIAL_SIZE))

\* this._maxSize = Math.max(this._initialSize, config.maxSize || 1000)
MaxSizeOf(cfg) == Max(InitialSizeOf(cfg), OrDefault(cfg.maxSize, DEFAULT_MAX_SIZE))

\* this._autoExpand = config.autoExpand !== false
AutoExpandOf(cfg) == cfg.autoExpand # "false"

\* this._reset = config.reset || ((obj) => obj)
ResetOf(cfg) == IF cfg.reset = "undefined" THEN "identity" ELSE cfg.reset

\* the constructor, _initializePool included: initialSize factory calls, pushed in order
NewPool(cfg) ==
    LET n == InitialSizeOf(cfg) IN
    [ pool          |-> [i \in 1..n |-> i],
      activeObjects |-> << >>,
      x             |-> [i \in 1..n |-> FieldDefault],
      created       |-> n,
      initialSize   |-> n,
      maxSize       |-> MaxSizeOf(cfg),
      autoExpand    |-> AutoExpandOf(cfg),
      reset         |-> ResetOf(cfg),
      disposed      |-> FALSE ]

availableSize(p) == Len(p.pool)

activeSize(p) == Len(p.activeObjects)

totalSize(p) == availableSize(p) + activeSize(p)

NoObject == [kind |-> "none", id |-> 0]

Obj(i) == [kind |-> "object", id |-> i]

IsActive(p, arg) == arg.kind = "object" /\ arg.id \in SeqToSet(p.activeObjects)

\* acquire(): the instance after the call, whether it threw, and the object returned
AcquireMissingAdd(p) ==
    IF Len(p.pool) = 0
    THEN IF ~p.autoExpand \/ totalSize(p) >= p.maxSize
         THEN [p |-> p, threw |-> TRUE, obj |-> NoObject]
         ELSE [p |-> [p EXCEPT !.created = @ + 1,
                               !.x = [i \in 1..(p.created + 1) |->
                                        IF i <= p.created THEN p.x[i] ELSE FieldDefault]],
               threw |-> FALSE, obj |-> Obj(p.created + 1)]
    ELSE [p |-> [p EXCEPT !.pool = SubSeq(@, 1, Len(@) - 1)],
          threw |-> FALSE, obj |-> Obj(p.pool[Len(p.pool)])]

AcquireNoLimit(p) ==
    IF Len(p.pool) = 0
    THEN [p |-> [p EXCEPT !.created = @ + 1,
                          !.x = [i \in 1..(p.created + 1) |->
                                   IF i <= p.created THEN p.x[i] ELSE FieldDefault],
                          !.activeObjects = SeqAdd(@, p.created + 1)],
          threw |-> FALSE, obj |-> Obj(p.created + 1)]
    ELSE [p |-> [p EXCEPT !.pool = SubSeq(@, 1, Len(@) - 1),
                          !.activeObjects = SeqAdd(@, p.pool[Len(p.pool)])],
          threw |-> FALSE, obj |-> Obj(p.pool[Len(p.pool)])]

Acquire(p) ==
    IF Len(p.pool) = 0
    THEN IF ~p.autoExpand \/ totalSize(p) >= p.maxSize
         THEN [p |-> p, threw |-> TRUE, obj |-> NoObject]
         ELSE [p |-> [p EXCEPT !.created = @ + 1,
                               !.x = [i \in 1..(p.created + 1) |->
                                        IF i <= p.created THEN p.x[i] ELSE FieldDefault],
                               !.activeObjects = SeqAdd(@, p.created + 1)],
               threw |-> FALSE, obj |-> Obj(p.created + 1)]
    ELSE [p |-> [p EXCEPT !.pool = SubSeq(@, 1, Len(@) - 1),
                          !.activeObjects = SeqAdd(@, p.pool[Len(p.pool)])],
          threw |-> FALSE, obj |-> Obj(p.pool[Len(p.pool)])]

\* this._reset(object): the configured function restores the factory's values,
\* the default one, (obj) => obj, leaves the object as it is
ApplyReset(p, i) ==
    IF p.reset = "identity" THEN p ELSE [p EXCEPT !.x[i] = FieldDefault]

\* release(object); resetThrows: the configured reset function throws on this call
ReleaseUnchecked(p, arg, resetThrows) ==
    IF arg.kind # "object"
    THEN [p |-> p, threw |-> TRUE]
    ELSE IF resetThrows /\ p.reset # "identity"
         THEN [p |-> p, threw |-> TRUE]
         ELSE [p |-> [ApplyReset(p, arg.id) EXCEPT
                         !.activeObjects = SeqRemove(@, arg.id),
                         !.pool = Append(@, arg.id)],
               threw |-> FALSE]

\* release with the object taken out of the active set before it is reset
ReleaseDeleteFirst(p, arg, resetThrows) ==
    IF ~IsActive(p, arg)
    THEN [p |-> p, threw |-> TRUE]
    ELSE IF resetThrows /\ p.reset # "identity"
         THEN [p |-> [p EXCEPT !.activeObjects = SeqRemove(@, arg.id)], threw |-> TRUE]
         ELSE [p |-> [ApplyReset(p, arg.id) EXCEPT
                         !.activeObjects = SeqRemove(@, arg.id),
                         !.pool = Append(@, arg.id)],
               threw |-> FALSE]

Release(p, arg, resetThrows) ==
    IF ~IsActive(p, arg)
    THEN [p |-> p, threw |-> TRUE]
    ELSE IF resetThrows /\ p.reset # "identity"
         THEN [p |-> p, threw |-> TRUE]
         ELSE [p |-> [ApplyReset(p, arg.id) EXCEPT
                         !.activeObjects = SeqRemove(@, arg.id),
                         !.pool = Append(@, arg.id)],
               threw |-> FALSE]

\* release called once for each element of `order`, stopping at the first throw;
\* throwAt = k makes the reset function throw on the k-th call (0: never)
RECURSIVE ReleaseEach(_, _, _, _)
ReleaseEach(p, order, k, throwAt) ==
    IF k > Len(order)
    THEN [p |-> p, threw |-> FALSE]
    ELSE LET r == Release(p, Obj(order[k]), k = throwAt) IN
         IF r.threw THEN r ELSE ReleaseEach(r.p, order, k + 1, throwAt)

\* releaseAll(): for (const object of this._activeObjects) this.release(object)
\* (a Set iterates in insertion order; deleting the element being visited
\* does not disturb the iteration)
ReleaseAllFirstOnly(p, throwAt) ==
    IF Len(p.activeObjects) = 0
    THEN [p |-> p, threw |-> FALSE]
    ELSE Release(p, Obj(p.activeObjects[1]), throwAt = 1)

ReleaseAll(p, throwAt) == ReleaseEach(p, p.activeObjects, 1, throwAt)

\* dispose()
Dispose(p) == [p EXCEPT !.pool = << >>, !.activeObjects = << >>, !.disposed = TRUE]

(***************************************************************************)
(* GameLoop                                                                *)
(*                                                                         *)
(* Time is counted in ticks of 1/3000 ms, so that FIXED_TIME_STEP          *)
(* (1000 / 60 ms) and the value handed to update (FIXED_TIME_STEP / 1000)  *)
(* are whole numbers and the arithmetic of _loop is exact.                 *)
(***************************************************************************)
TicksPerMs == 3 * 1000

Ms(n) == n * TicksPerMs

\* const FIXED_TIME_STEP = 1000 / 60
FIXED_TIME_STEP == Ms(1000) \div 60

\* const MAX_FRAME_TIME = 250
MAX_FRAME_TIME == Ms(250)

\* the argument of this.update(FIXED_TIME_STEP / 1000)
UpdateArg == FIXED_TIME_STEP \div 1000

\* the constructor; targetFPS in frames per second, frameTime in ticks
NewGameLoop(targetFPS) ==
    [ targetFPS     |-> OrDefault(targetFPS, 60),
      frameTime     |-> Ms(1000) \div OrDefault(targetFPS, 60),
      accumulator   |-> 0,
      lastTime      |-> 0,
      running       |-> FALSE,
      fps           |-> 0,
      frameCount    |-> 0,
      lastFPSUpdate |-> 0,
      listening     |-> TRUE ]

UpdateCall == [fn |-> "update", arg |-> UpdateArg]

\* render(ctx, alpha) with alpha = accumulator / FIXED_TIME_STEP, kept as a fraction
RenderCall(acc) == [fn |-> "render", arg |-> [num |-> acc, den |-> FIXED_TIME_STEP]]

FrameRequest == [fn |-> "requestAnimationFrame", arg |-> 0]

\* console.error(message, error) in a catch block
ErrorLog(message) == [fn |-> "console.error", arg |-> message]

\* start(): the instance afterwards and the calls made
StartUnguarded(g, t) ==
    [ g |-> [g EXCEPT !.running = TRUE, !.lastTime = t, !.lastFPSUpdate = t],
      calls |-> <<FrameRequest>> ]

Start(g, t) ==
    IF g.running
    THEN [g |-> g, calls |-> << >>]
    ELSE [ g |-> [g EXCEPT !.running = TRUE, !.lastTime = t, !.lastFPSUpdate = t],
           calls |-> <<FrameRequest>> ]

\* stop()
Stop(g) == [g EXCEPT !.running = FALSE]

\* while (this.accumulator >= FIXED_TIME_STEP) { update; accumulator -= FIXED_TIME_STEP }
\* calls: the update calls made so far; throwAt = k: the k-th update call throws
RECURSIVE DrainStrict(_, _, _)
DrainStrict(acc, calls, throwAt) ==
    IF acc > FIXED_TIME_STEP
    THEN IF Len(calls) + 1 = throwAt
         THEN [acc |-> acc, calls |-> Append(calls, UpdateCall), threw |-> TRUE]
         ELSE DrainStrict(acc - FIXED_TIME_STEP, Append(calls, UpdateCall), throwAt)
    ELSE [acc |-> acc, calls |-> calls, threw |-> FALSE]

RECURSIVE Drain(_, _, _)
Drain(acc, calls, throwAt) ==
    IF acc >= FIXED_TIME_STEP
    THEN IF Len(calls) + 1 = throwAt
         THEN [acc |-> acc, calls |-> Append(calls, UpdateCall), threw |-> TRUE]
         ELSE Drain(acc - FIXED_TIME_STEP, Append(calls, UpdateCall), throwAt)
    ELSE [acc |-> acc, calls |-> calls, threw |-> FALSE]

\* let frameTime = currentTime - this.lastTime; frameTime = Math.min(frameTime, MAX_FRAME_TIME)
FrameTimeUnclamped(g, currentTime) == currentTime - g.lastTime

FrameTime(g, currentTime) == Min(currentTime - g.lastTime, MAX_FRAME_TIME)

\* the FPS counter of _loop
CountFrame(g, currentTime) ==
    IF currentTime - g.lastFPSUpdate >= Ms(1000)
    THEN [g EXCEPT !.lastTime = currentTime, !.fps = g.frameCount + 1,
                   !.frameCount = 0, !.lastFPSUpdate = currentTime]
    ELSE [g EXCEPT !.lastTime = currentTime, !.frameCount = @ + 1]

\* what _loop does once the updates are done: render, then request the next frame
FinishFrameRequestFirst(g, calls, renderThrows) ==
    IF renderThrows
    THEN [ g |-> Stop(g),
           calls |-> calls \o <<FrameRequest, RenderCall(g.accumulator),
                                ErrorLog("Error in render loop:")>>,
           threw |-> TRUE, ticked |-> TRUE ]
    ELSE [ g |-> g, calls |-> calls \o <<FrameRequest, RenderCall(g.accumulator)>>,
           threw |-> FALSE, ticked |-> TRUE ]

FinishFrameNoStop(g, calls, renderThrows) ==
    [ g |-> g, calls |-> calls \o <<RenderCall(g.accumulator), FrameRequest>>,
      threw |-> FALSE, ticked |-> TRUE ]

FinishFrame(g, calls, renderThrows) ==
    IF renderThrows
    THEN [ g |-> Stop(g),
           calls |-> calls \o <<RenderCall(g.accumulator), ErrorLog("Error in render loop:")>>,
           threw |-> TRUE, ticked |-> TRUE ]
    ELSE [ g |-> g, calls |-> calls \o <<RenderCall(g.accumulator), FrameRequest>>,
           threw |-> FALSE, ticked |-> TRUE ]

\* _loop(currentTime): the instance afterwards, the calls made in order, whether
\* _loop threw (both catch blocks rethrow the callback's error), and whether the
\* frame ticked at all
LoopUnguarded(g, currentTime, throwAt, renderThrows) ==
    LET g1 == CountFrame(g, currentTime)
        d == Drain(g.accumulator + FrameTime(g, currentTime), << >>, throwAt)
        g2 == [g1 EXCEPT !.accumulator = d.acc]
    IN  IF d.threw
        THEN [ g |-> Stop(g2), calls |-> Append(d.calls, ErrorLog("Error in update loop:")),
               threw |-> TRUE, ticked |-> TRUE ]
        ELSE FinishFrame(g2, d.calls, renderThrows)

LoopSilent(g, currentTime, throwAt, renderThrows) ==
    IF ~g.running
    THEN [g |-> g, calls |-> << >>, threw |-> FALSE, ticked |-> FALSE]
    ELSE LET g1 == CountFrame(g, currentTime)
             d == Drain(g.accumulator + FrameTime(g, currentTime), << >>, throwAt)
             g2 == [g1 EXCEPT !.accumulator = d.acc]
         IN  IF d.threw
             THEN [g |-> Stop(g2), calls |-> d.calls, threw |-> TRUE, ticked |-> TRUE]
             ELSE FinishFrame(g2, d.calls, renderThrows)

Loop(g, currentTime, throwAt, renderThrows) ==
    IF ~g.running
    THEN [g |-> g, calls |-> << >>, threw |-> FALSE, ticked |-> FALSE]
    ELSE LET g1 == CountFrame(g, currentTime)
             d == Drain(g.accumulator + FrameTime(g, currentTime), << >>, throwAt)
             g2 == [g1 EXCEPT !.accumulator = d.acc]
         IN  IF d.threw
             THEN [ g |-> Stop(g2),
                    calls |-> Append(d.calls, ErrorLog("Error in update loop:")),
                    threw |-> TRUE, ticked |-> TRUE ]
             ELSE FinishFrame(g2, d.calls, renderThrows)

\* _handleVisibilityChange(), with document.hidden = isHidden
HandleVisibilityChange(g, isHidden, t) ==
    IF isHidden THEN [g |-> Stop(g), calls |-> << >>]
    ELSE IF ~g.running THEN Start(g, t)
    ELSE [g |-> g, calls |-> << >>]

\* destroy()
Destroy(g) == [Stop(g) EXCEPT !.listening = FALSE]

\* how many of the calls are to fn
CallsTo(calls, fn) == Cardinality({i \in 1..Len(calls) : calls[i].fn = fn})

\* a step of the GameLoop state machine that is no frame callback
LoopStep(op, calls) ==
    [op |-> op, calls |-> calls, threw |-> FALSE, ticked |-> FALSE,
     throwAt |-> 0, renderThrows |-> FALSE]

NoHistory == [faulted |-> FALSE, hiddenElapsed |-> FALSE, runningAtHide |-> FALSE]

\* the other component, left alone
LoopIdle ==
    /\ gameLoop = NewGameLoop(0)
    /\ now = 0
    /\ pendingFrames = 0
    /\ hidden = FALSE
    /\ loopLast = LoopStep("new", << >>)
    /\ loopSteps = 0
    /\ clockSteps = 0
    /\ loopHistory = NoHistory

PoolIdle ==
    /\ poolConfig = [initialSize |-> 1, maxSize |-> 1, autoExpand |-> "false", reset |-> "undefined"]
    /\ objectPool = NewPool(poolConfig)
    /\ poolLast = [op |-> "new", arg |-> NoObject, threw |-> FALSE, obj |-> NoObject]
    /\ poolOps = 0

(***************************************************************************)
(* Canvas and Renderer (src/src/core/Canvas.js): two more fixed-step       *)
(* schedulers, each with its own accumulator. Time is in the ticks of the  *)
(* GameLoop model.                                                         *)
(***************************************************************************)
\* the Canvas constructor; fps = 0 stands for an omitted config.fps
NewCanvas(fps) ==
    [ fps           |-> OrDefault(fps, 60),
      isRunning     |-> FALSE,
      lastFrameTime |-> 0,
      frameInterval |-> Ms(1000) \div OrDefault(fps, 60),
      accumulator   |-> 0 ]

\* Canvas.start(updateFn, renderFn) with valid callbacks
CanvasStart(c, t) ==
    IF c.isRunning
    THEN [c |-> c, calls |-> << >>, threw |-> TRUE]
    ELSE [ c |-> [c EXCEPT !.isRunning = TRUE, !.lastFrameTime = t],
           calls |-> <<FrameRequest>>, threw |-> FALSE ]

CanvasStop(c) == [c EXCEPT !.isRunning = FALSE]

\* this.updateFn(this.frameInterval / 1000)
CanvasUpdateCall(c) == [fn |-> "update", arg |-> c.frameInterval \div 1000]

\* this.renderFn(this.ctx)
PlainRenderCall == [fn |-> "render", arg |-> 0]

\* while (this.accumulator >= this.frameInterval) { updateFn; accumulator -= frameInterval }
RECURSIVE CanvasDrain(_, _, _, _)
CanvasDrain(c, acc, calls, throwAt) ==
    IF acc >= c.frameInterval
    THEN IF Len(calls) + 1 = throwAt
         THEN [acc |-> acc, calls |-> Append(calls, CanvasUpdateCall(c)), threw |-> TRUE]
         ELSE CanvasDrain(c, acc - c.frameInterval, Append(calls, CanvasUpdateCall(c)),
                          throwAt)
    ELSE [acc |-> acc, calls |-> calls, threw |-> FALSE]

\* Canvas.gameLoop(currentTime): the catch blocks stop the loop and return
CanvasGameLoop(c, currentTime, throwAt, renderThrows) ==
    IF ~c.isRunning
    THEN [c |-> c, calls |-> << >>]
    ELSE LET d == CanvasDrain(c, c.accumulator + (currentTime - c.lastFrameTime),
                              << >>, throwAt)
             c1 == [c EXCEPT !.accumulator = d.acc]
         IN  IF d.threw
             THEN [c |-> CanvasStop(c1), calls |-> d.calls]
             ELSE IF renderThrows
             THEN [c |-> CanvasStop(c1), calls |-> Append(d.calls, PlainRenderCall)]
             ELSE [ c |-> [c1 EXCEPT !.lastFrameTime = currentTime],
                    calls |-> d.calls \o <<PlainRenderCall, FrameRequest>> ]

FRAME_RATE == 60

FRAME_TIME == Ms(1000) \div FRAME_RATE

MAX_FRAME_SKIP == 5

\* the Renderer constructor
NewRenderer ==
    [ isRunning     |-> FALSE,
      lastTimestamp |-> 0,
      accumulator   |-> 0,
      frameCount    |-> 0,
      fpsTime       |-> 0,
      currentFps    |-> 0 ]

\* Renderer.start(updateFn, renderFn) with valid callbacks
RendererStart(r, t) ==
    IF r.isRunning
    THEN [r |-> r, calls |-> << >>, threw |-> TRUE]
    ELSE [ r |-> [r EXCEPT !.isRunning = TRUE, !.lastTimestamp = t],
           calls |-> <<FrameRequest>>, threw |-> FALSE ]

RendererStop(r) == [r EXCEPT !.isRunning = FALSE]

\* this._updateFn(FRAME_TIME)
RendererUpdateCall == [fn |-> "update", arg |-> FRAME_TIME]

\* the FPS calculation of Renderer.gameLoop
RendererCountFrame(r, timestamp) ==
    LET deltaTime == timestamp - r.lastTimestamp IN
    IF r.fpsTime + deltaTime >= Ms(1000)
    THEN [r EXCEPT !.lastTimestamp = timestamp, !.currentFps = r.frameCount + 1,
                   !.frameCount = 0, !.fpsTime = r.fpsTime + deltaTime - Ms(1000)]
    ELSE [r EXCEPT !.lastTimestamp = timestamp, !.frameCount = @ + 1,
                   !.fpsTime = @ + deltaTime]

\* while (this._accumulator >= FRAME_TIME && updateCount < MAX_FRAME_SKIP) { ... }
RECURSIVE RendererDrain(_, _, _)
RendererDrain(acc, calls, throwAt) ==
    IF acc >= FRAME_TIME /\ Len(calls) < MAX_FRAME_SKIP
    THEN IF Len(calls) + 1 = throwAt
         THEN [acc |-> acc, calls |-> Append(calls, RendererUpdateCall), threw |-> TRUE]
         ELSE RendererDrain(acc - FRAME_TIME, Append(calls, RendererUpdateCall), throwAt)
    ELSE [acc |-> acc, calls |-> calls, threw |-> FALSE]

\* Renderer.gameLoop(timestamp): the catch blocks stop the loop and return
RendererGameLoop(r, timestamp, throwAt, renderThrows) ==
    IF ~r.isRunning
    THEN [r |-> r, calls |-> << >>]
    ELSE LET r1 == RendererCountFrame(r, timestamp)
             d == RendererDrain(r.accumulator + (timestamp - r.lastTimestamp),
                                << >>, throwAt)
             r2 == [r1 EXCEPT !.accumulator = d.acc]
         IN  IF d.threw
             THEN [r |-> RendererStop(r2), calls |-> d.calls]
             ELSE IF renderThrows
             THEN [r |-> RendererStop(r2), calls |-> Append(d.calls, PlainRenderCall)]
             ELSE [r |-> r2, calls |-> d.calls \o <<PlainRenderCall, FrameRequest>>]

\* a step of the Canvas and Renderer state machine
SchedStep(op, calls, threw) == [op |-> op, calls |-> calls, threw |-> threw]

SchedIdle ==
    /\ canvas = NewCanvas(0)
    /\ renderer = NewRenderer
    /\ schedEnv = [now |-> 0, canvasFrames |-> 0, rendererFrames |-> 0, steps |-> 0]
    /\ schedLast = SchedStep("new", << >>, FALSE)

(***************************************************************************)
(* ParticleSystem (src/unnamed/part_000) and its private Particle class.   *)
(*                                                                         *)
(* Time is in milliseconds. this.particles is a Set, modelled as the       *)
(* sequence of its elements in insertion order. A particle is modelled by  *)
(* the fields that decide how long it lives (birth, lifetime, dead); its   *)
(* position, velocity, colour and size influence neither the particle      *)
(* count nor the lifetime.                                                 *)
(***************************************************************************)
DEFAULT_CONFIG ==
    [ MAX_PARTICLES |-> 1000, PARTICLE_LIFETIME |-> 2000,
      BATCH_SIZE |-> 100, OPTIMIZATION_THRESHOLD |-> 60 ]

\* the constructor: this.config = { ...DEFAULT_CONFIG, ...options.config }, where
\* options.config overrides MAX_PARTICLES
NewParticleSystem(maxParticles, t) ==
    [ config     |-> [DEFAULT_CONFIG EXCEPT !.MAX_PARTICLES = maxParticles],
      particles  |-> << >>,
      lastUpdate |-> t,
      isRunning  |-> FALSE,
      frameCount |-> 0,
      hasContext |-> TRUE ]

\* new Particle(config) of the private class, at time t; x is the kind of number
\* config.x is (finite, NaN) or "missing" for null
NewSystemParticle(x, lifetime, t) ==
    [x |-> x, lifetime |-> lifetime, birth |-> t, dead |-> FALSE]

NewParticleCall(lifetime) == [fn |-> "new Particle", arg |-> lifetime]

\* lifetime: this.config.PARTICLE_LIFETIME * (0.8 + Math.random() * 0.4); factor is
\* the value of 0.8 + Math.random() * 0.4 in percent
ExplosionLifetime(ps, factor) == (ps.config.PARTICLE_LIFETIME * factor) \div 100

\* const { count = this.config.BATCH_SIZE } = options
CountOf(ps, options) == IF options.hasCount THEN options.count ELSE ps.config.BATCH_SIZE

\* the loop of createExplosion from index i on; rand[i + 1] is the lifetime factor
\* drawn for the particle of index i
RECURSIVE CreateEachOneShort(_, _, _, _, _, _, _)
CreateEachOneShort(ps, x, calls, i, count, rand, t) ==
    IF i >= count \/ Len(ps.particles) + 1 >= ps.config.MAX_PARTICLES
    THEN [ps |-> ps, calls |-> calls]
    ELSE LET lifetime == ExplosionLifetime(ps, rand[i + 1]) IN
         CreateEachOneShort(
             [ps EXCEPT !.particles = Append(@, NewSystemParticle(x, lifetime, t))],
             x, Append(calls, NewParticleCall(lifetime)), i + 1, count, rand, t)

RECURSIVE CreateEach(_, _, _, _, _, _, _)
CreateEach(ps, x, calls, i, count, rand, t) ==
    IF i >= count \/ Len(ps.particles) >= ps.config.MAX_PARTICLES
    THEN [ps |-> ps, calls |-> calls]
    ELSE LET lifetime == ExplosionLifetime(ps, rand[i + 1]) IN
         CreateEach([ps EXCEPT !.particles = Append(@, NewSystemParticle(x, lifetime, t))],
                    x, Append(calls, NewParticleCall(lifetime)), i + 1, count, rand, t)

\* createExplosion(x, y, options) at time t
CreateExplosion(ps, x, options, rand, t) ==
    LET count == CountOf(ps, options)
        warned == IF Len(ps.particles) + count > ps.config.MAX_PARTICLES
                  THEN <<[fn |-> "console.warn", arg |-> 0]>>
                  ELSE << >>
    IN  CreateEach(ps, x, warned, 0, count, rand, t)

\* update(deltaTime) of the private Particle class at time t: the age is read
\* off the clock, deltaTime only moves the particle
SystemParticleUpdate(p, t) ==
    IF p.dead THEN [p |-> p, alive |-> FALSE]
    ELSE IF t - p.birth >= p.lifetime THEN [p |-> [p EXCEPT !.dead = TRUE], alive |-> FALSE]
    ELSE [p |-> p, alive |-> TRUE]

\* the loop of ParticleSystem.update over the particles from index i on
RECURSIVE UpdateEach(_, _, _, _)
UpdateEach(particles, kept, calls, t) ==
    IF particles = << >>
    THEN [particles |-> kept, calls |-> calls]
    ELSE LET r == SystemParticleUpdate(Head(particles), t) IN
         IF r.alive
         THEN UpdateEach(Tail(particles), Append(kept, r.p), calls, t)
         ELSE UpdateEach(Tail(particles), kept,
                         Append(calls, [fn |-> "particles.delete", arg |-> r.p.birth]), t)

\* ParticleSystem.update() at time t
SystemUpdate(ps, t) ==
    LET r == UpdateEach(ps.particles, << >>, << >>, t) IN
    [ps |-> [ps EXCEPT !.particles = r.particles, !.lastUpdate = t], calls |-> r.calls]

\* animate() at time t: update, render, count the frame, request the next one.
\* render() throws once dispose() has set this.ctx to null. Every 60th frame
\* monitorPerformance() computes 1000 / (performance.now() - this.lastUpdate)
\* with the lastUpdate that update() has just set: no time has passed, the
\* quotient is Infinity and optimize() is not called.
Animate(ps, t) ==
    IF ~ps.isRunning
    THEN [ps |-> ps, calls |-> << >>, threw |-> FALSE]
    ELSE LET u == SystemUpdate(ps, t) IN
         IF ~ps.hasContext
         THEN [ps |-> u.ps, calls |-> u.calls, threw |-> TRUE]
         ELSE [ ps |-> [u.ps EXCEPT !.frameCount = @ + 1],
                calls |-> u.calls \o <<PlainRenderCall, FrameRequest>>,
                threw |-> FALSE ]

\* start() at time t
SystemStart(ps, t) ==
    IF ps.isRunning
    THEN [ps |-> ps, calls |-> << >>, threw |-> FALSE]
    ELSE Animate([ps EXCEPT !.isRunning = TRUE, !.lastUpdate = t], t)

SystemStop(ps) == [ps EXCEPT !.isRunning = FALSE]

\* dispose()
SystemDispose(ps) == [SystemStop(ps) EXCEPT !.particles = << >>, !.hasContext = FALSE]

\* a step of the ParticleSystem state machine; x is the position handed to
\* createExplosion
PsStep(op, requested, calls, threw) ==
    [op |-> op, requested |-> requested, calls |-> calls, threw |-> threw, x |-> "none"]

PsIdle ==
    /\ particleSystem = NewParticleSystem(DEFAULT_CONFIG.MAX_PARTICLES, 0)
    /\ psEnv = [now |-> 0, frames |-> 0, steps |-> 0]
    /\ psLast = PsStep("new", 0, << >>, FALSE)

(***************************************************************************)
(* The pooled Particle class (src/unnamed/part_000, second half).          *)
(*                                                                         *)
(* Time is in milliseconds. An instance is identified by the order in      *)
(* which it was constructed. Of its fields the model keeps x and vx (y and *)
(* vy are treated alike by the code), alpha as a fraction, lifetime,       *)
(* elapsed and active; drag is applied in whole numbers. A position is a   *)
(* number that is finite, NaN or Infinity (xKind), with its value in x     *)
(* when it is finite; a fraction with denominator 0 is not a finite        *)
(* number.                                                                 *)
(***************************************************************************)
POOL_SIZE == 1000

DEFAULT_LIFETIME == 1000

DRAG_PERCENT == 98

\* the constructor
NewParticle ==
    [ x |-> 0, xKind |-> "finite", vx |-> 0, alpha |-> [num |-> 1, den |-> 1],
      lifetime |-> DEFAULT_LIFETIME, elapsed |-> 0, active |-> FALSE ]

\* static recycle(particle)
Recycle(pool, id) == IF Len(pool) < POOL_SIZE THEN Append(pool, id) ELSE pool

\* init(config): the instance afterwards, and whether init threw
\* (typeof x !== 'number' is false of NaN and of Infinity)
ParticleInit(p, config) ==
    IF config.xType = "string"
    THEN [p |-> p, threw |-> TRUE]
    ELSE [ p |-> [ x |-> config.x, xKind |-> config.xType, vx |-> config.speed,
                   alpha |-> IF config.hasAlpha THEN config.alpha
                             ELSE [num |-> 1, den |-> 1],
                   lifetime |-> IF config.hasLifetime THEN config.lifetime
                                ELSE DEFAULT_LIFETIME,
                   elapsed |-> 0, active |-> TRUE ],
           threw |-> FALSE ]

\* static create(config): this.#pool.pop() || new Particle(), then init(config)
ParticleCreate(pool, objs, config) ==
    LET popped == Len(pool) > 0
        id == IF popped THEN pool[Len(pool)] ELSE Len(objs) + 1
        pool1 == IF popped THEN SubSeq(pool, 1, Len(pool) - 1) ELSE pool
        objs1 == IF popped THEN objs ELSE Append(objs, NewParticle)
        r == ParticleInit(objs1[id], config)
    IN  [ pool |-> pool1, objs |-> [objs1 EXCEPT ![id] = r.p], id |-> id,
          threw |-> r.threw ]

\* update(deltaTime) on instance id: the pool and the instances afterwards, and
\* the value returned
ParticleUpdateLate(pool, objs, id, deltaTime) ==
    LET p == objs[id]
        elapsed == p.elapsed + deltaTime
    IN  IF ~p.active
        THEN [pool |-> pool, objs |-> objs, alive |-> FALSE]
        ELSE IF elapsed > p.lifetime
        THEN [ pool |-> Recycle(pool, id),
               objs |-> [objs EXCEPT ![id].elapsed = elapsed, ![id].active = FALSE],
               alive |-> FALSE ]
        ELSE [ pool |-> pool,
               objs |-> [objs EXCEPT ![id] =
                           [p EXCEPT !.elapsed = elapsed,
                                     !.x = IF p.xKind = "finite" THEN p.x + p.vx ELSE p.x,
                                     !.vx = (p.vx * DRAG_PERCENT) \div 100,
                                     !.alpha = [num |-> p.lifetime - elapsed,
                                                den |-> p.lifetime]]],
               alive |-> TRUE ]

\* update without its first line
ParticleUpdateUnguarded(pool, objs, id, deltaTime) ==
    LET p == objs[id]
        elapsed == p.elapsed + deltaTime
    IN  IF elapsed >= p.lifetime
        THEN [ pool |-> Recycle(pool, id),
               objs |-> [objs EXCEPT ![id].elapsed = elapsed, ![id].active = FALSE],
               alive |-> FALSE ]
        ELSE [ pool |-> pool,
               objs |-> [objs EXCEPT ![id] =
                           [p EXCEPT !.elapsed = elapsed,
                                     !.x = IF p.xKind = "finite" THEN p.x + p.vx ELSE p.x,
                                     !.vx = (p.vx * DRAG_PERCENT) \div 100,
                                     !.alpha = [num |-> p.lifetime - elapsed,
                                                den |-> p.lifetime]]],
               alive |-> TRUE ]

ParticleUpdate(pool, objs, id, deltaTime) ==
    LET p == objs[id]
        elapsed == p.elapsed + deltaTime
    IN  IF ~p.active
        THEN [pool |-> pool, objs |-> objs, alive |-> FALSE]
        ELSE IF elapsed >= p.lifetime
        THEN [ pool |-> Recycle(pool, id),
               objs |-> [objs EXCEPT ![id].elapsed = elapsed, ![id].active = FALSE],
               alive |-> FALSE ]
        ELSE [ pool |-> pool,
               objs |-> [objs EXCEPT ![id] =
                           [p EXCEPT !.elapsed = elapsed,
                                     !.x = IF p.xKind = "finite" THEN p.x + p.vx ELSE p.x,
                                     !.vx = (p.vx * DRAG_PERCENT) \div 100,
                                     !.alpha = [num |-> p.lifetime - elapsed,
                                                den |-> p.lifetime]]],
               alive |-> TRUE ]

\* destroy() on instance id
ParticleDestroy(pool, objs, id) ==
    [pool |-> Recycle(pool, id), objs |-> [objs EXCEPT ![id].active = FALSE]]

\* a call on the pooled Particle class; config is the argument of create
NoConfig ==
    [ xType |-> "finite", x |-> 0, speed |-> 0, hasLifetime |-> FALSE, lifetime |-> 0,
      hasAlpha |-> FALSE, alpha |-> [num |-> 1, den |-> 1] ]

ParticleStep(op, id, arg, alive, threw) ==
    [ op |-> op, id |-> id, arg |-> arg, alive |-> alive, threw |-> threw,
      config |-> NoConfig ]

ParticleIdle ==
    /\ particlePool = << >>
    /\ particleObjs = << >>
    /\ particleFed = << >>
    /\ particleLast = ParticleStep("none", 0, 0, FALSE, FALSE)
    /\ particleOps = 0

(***************************************************************************)
(* ParticleEmitter (src/src/effects/ParticleEmitter.js).                   *)
(*                                                                         *)
(* Time is in milliseconds. this.particles is a Set of object literals,    *)
(* modelled as the sequence of its elements in insertion order. Of a       *)
(* particle the model keeps x and vx (y and vy are treated alike by the    *)
(* code), life, maxLife and opacity as a fraction of the emitter's         *)
(* opacity; fed is the sum of the deltas passed to update since the        *)
(* particle was created, kept for the properties only.                     *)
(***************************************************************************)
EMITTER_DEFAULT_LIFETIME == 2000

\* update() scales a movement by deltaTime / 16
MOVE_SCALE == 16

\* the constructor at time t; lifetime = 0 stands for an omitted config.lifetime
NewEmitter(lifetime, t) ==
    [ lifetime   |-> OrDefault(lifetime, EMITTER_DEFAULT_LIFETIME),
      particles  |-> << >>,
      isActive   |-> FALSE,
      lastUpdate |-> t ]

\* the particle createParticle() adds; vx is the drawn velocity
NewEmitterParticle(em, vx) ==
    [ x |-> 0, vx |-> vx, life |-> em.lifetime, maxLife |-> em.lifetime,
      opacity |-> [num |-> 1, den |-> 1], fed |-> 0 ]

\* the body of the loop of update(deltaTime) for one particle
EmitterParticleUpdate(p, deltaTime) ==
    [p EXCEPT !.x = p.x + (p.vx * deltaTime) \div MOVE_SCALE,
              !.life = p.life - deltaTime,
              !.opacity = [num |-> p.life - deltaTime, den |-> p.maxLife],
              !.fed = p.fed + deltaTime]

\* update(deltaTime)
EmitterUpdate(em, deltaTime) ==
    LET moved == [i \in 1..Len(em.particles) |->
                    EmitterParticleUpdate(em.particles[i], deltaTime)]
        kept == SelectSeq(moved, LAMBDA p : ~(p.life <= 0))
    IN  [em EXCEPT !.particles = kept,
                   !.isActive = IF Len(kept) = 0 THEN FALSE ELSE em.isActive]

\* a step that does not call update passes no delta
NoDelta == [passed |-> FALSE, deltaTime |-> 0]

\* animate() without its first line
EmitterAnimateUnguarded(em, t) ==
    [ em |-> EmitterUpdate([em EXCEPT !.lastUpdate = t], t - em.lastUpdate),
      calls |-> <<FrameRequest>>,
      delta |-> [passed |-> TRUE, deltaTime |-> t - em.lastUpdate] ]

\* animate() at time t: the emitter afterwards, the calls made, the delta passed
\* to update
EmitterAnimate(em, t) ==
    IF ~em.isActive
    THEN [em |-> em, calls |-> << >>, delta |-> NoDelta]
    ELSE [ em |-> EmitterUpdate([em EXCEPT !.lastUpdate = t], t - em.lastUpdate),
           calls |-> <<FrameRequest>>,
           delta |-> [passed |-> TRUE, deltaTime |-> t - em.lastUpdate] ]

\* emit(count) at time t; velocities[i] is the velocity drawn for the i-th particle
Emit(em, count, velocities, t) ==
    IF count < 1
    THEN [em |-> em, calls |-> << >>, delta |-> NoDelta]
    ELSE LET created == [i \in 1..count |-> NewEmitterParticle(em, velocities[i])]
             em1 == [em EXCEPT !.particles = @ \o created]
         IN  IF em1.isActive
             THEN [em |-> em1, calls |-> << >>, delta |-> NoDelta]
             ELSE EmitterAnimate([em1 EXCEPT !.isActive = TRUE], t)

\* stop() that keeps the particles
EmitterStopKeepsParticles(em) == [em EXCEPT !.isActive = FALSE]

\* stop()
EmitterStop(em) == [em EXCEPT !.isActive = FALSE, !.particles = << >>]

\* a step of the ParticleEmitter state machine; none of emit, update, animate
\* and stop has a throw statement
EmitterStep(op, arg, delta) ==
    [op |-> op, arg |-> arg, delta |-> delta, threw |-> FALSE]

EmitterIdle ==
    /\ emitter = NewEmitter(0, 0)
    /\ emitterEnv = [now |-> 0, frames |-> 0, steps |-> 0]
    /\ emitterLast = EmitterStep("new", 0, NoDelta)

(***************************************************************************)
(* AudioManager (src/src/audio/AudioManager.js).                           *)
(*                                                                         *)
(* _activeAudio is a Set of audioInfo objects, modelled as the sequence of *)
(* its elements in insertion order; an audioInfo is the number of its      *)
(* source node and its startTime (ms). _audioBuffers is the set of the ids *)
(* loaded. The gain values and the fade timer touch neither collection.    *)
(***************************************************************************)
MAX_CONCURRENT_SOUNDS == 8

\* the constructor
NewAudioManager == [audioBuffers |-> {}, activeAudio |-> << >>, disposed |-> FALSE]

\* loadAudio(id, url), fetched and decoded
LoadAudio(am, id) == [am EXCEPT !.audioBuffers = @ \cup {id}]

SourceCall(fn, source) == [fn |-> fn, arg |-> source]

\* Array.from(this._activeAudio).sort((a, b) => a.startTime - b.startTime)[0]:
\* the sort is stable, so of the sounds with the least startTime it is the one
\* added first; 0 if there is none
OldestIndex(active) ==
    IF Len(active) = 0 THEN 0
    ELSE CHOOSE i \in 1..Len(active) :
           /\ \A j \in 1..Len(active) : active[i].startTime <= active[j].startTime
           /\ \A j \in 1..(i - 1) : active[j].startTime > active[i].startTime

\* _stopOldestSound()
StopOldestSound(am) ==
    LET i == OldestIndex(am.activeAudio) IN
    IF i = 0 THEN [am |-> am, calls |-> << >>]
    ELSE [ am |-> [am EXCEPT !.activeAudio = SeqRemove(@, am.activeAudio[i])],
           calls |-> <<SourceCall("source.stop", am.activeAudio[i].source),
                       SourceCall("activeAudio.delete", am.activeAudio[i].source)>> ]

\* playSoundEffect with the limit tested by > instead of >=
PlaySoundEffectLate(am, id, source, t) ==
    LET r == IF Len(am.activeAudio) > MAX_CONCURRENT_SOUNDS
             THEN StopOldestSound(am)
             ELSE [am |-> am, calls |-> << >>]
    IN  IF id \notin r.am.audioBuffers
        THEN [ am |-> r.am, calls |-> Append(r.calls, SourceCall("console.error", 0)),
               created |-> FALSE ]
        ELSE [ am |-> [r.am EXCEPT !.activeAudio =
                         Append(@, [source |-> source, startTime |-> t])],
               calls |-> r.calls \o <<SourceCall("activeAudio.add", source),
                                      SourceCall("source.start", source)>>,
               created |-> TRUE ]

\* playSoundEffect(id, options) at time t; source is the number of the buffer
\* source it creates if the buffer is found
PlaySoundEffect(am, id, source, t) ==
    LET r == IF Len(am.activeAudio) >= MAX_CONCURRENT_SOUNDS
             THEN StopOldestSound(am)
             ELSE [am |-> am, calls |-> << >>]
    IN  IF id \notin r.am.audioBuffers
        THEN [ am |-> r.am, calls |-> Append(r.calls, SourceCall("console.error", 0)),
               created |-> FALSE ]
        ELSE [ am |-> [r.am EXCEPT !.activeAudio =
                         Append(@, [source |-> source, startTime |-> t])],
               calls |-> r.calls \o <<SourceCall("activeAudio.add", source),
                                      SourceCall("source.start", source)>>,
               created |-> TRUE ]

\* source.onended of the sound at index i of _activeAudio (the handler of a
\* sound that stopAll or _stopOldestSound has already removed deletes nothing)
SoundEnded(am, i) == [am EXCEPT !.activeAudio = SeqRemove(@, am.activeAudio[i])]

\* stopAll()
StopAll(am) ==
    [ am |-> [am EXCEPT !.activeAudio = << >>],
      calls |-> [i \in 1..Len(am.activeAudio) |->
                   SourceCall("source.stop", am.activeAudio[i].source)] ]

\* dispose()
AudioDispose(am) ==
    [ am |-> [StopAll(am).am EXCEPT !.audioBuffers = {}, !.disposed = TRUE],
      calls |-> StopAll(am).calls ]

\* a step of the AudioManager state machine
AudioStep(op, calls, before) == [op |-> op, calls |-> calls, before |-> before]

AudioIdle ==
    /\ audioManager = NewAudioManager
    /\ audioEnv = [now |-> 0, created |-> 0, steps |-> 0, clock |-> 0]
    /\ audioLast = AudioStep("new", << >>, 0)

(***************************************************************************)
(* AudioSettings (src/src/storage/AudioSettings.js).                       *)
(*                                                                         *)
(* Volumes are in percent. A stored string is the text of a number or of a *)
(* boolean; NoItem is the null that getItem returns for a key never set.   *)
(* NaN and null are the values parseFloat and JSON.parse give for it.      *)
(***************************************************************************)
STORAGE_KEYS ==
    [ MASTER_VOLUME |-> "audio_master_volume",
      MUSIC_VOLUME  |-> "audio_music_volume",
      SFX_VOLUME    |-> "audio_sfx_volume",
      MUSIC_MUTED   |-> "audio_music_muted",
      SFX_MUTED     |-> "audio_sfx_muted" ]

DEFAULT_SETTINGS ==
    [ masterVolume |-> 100, musicVolume |-> 80, sfxVolume |-> 70,
      musicMuted |-> FALSE, sfxMuted |-> FALSE ]

SettingNames == {"masterVolume", "musicVolume", "sfxVolume", "musicMuted", "sfxMuted"}

\* key.toUpperCase()
ToUpperCase(key) ==
    CASE key = "masterVolume" -> "MASTERVOLUME"
      [] key = "musicVolume"  -> "MUSICVOLUME"
      [] key = "sfxVolume"    -> "SFXVOLUME"
      [] key = "musicMuted"   -> "MUSICMUTED"
      [] key = "sfxMuted"     -> "SFXMUTED"

\* STORAGE_KEYS[name]: undefined for a name that is no property; setItem turns
\* its key into a string
StorageKey(name) ==
    IF name \in DOMAIN STORAGE_KEYS THEN STORAGE_KEYS[name] ELSE "undefined"

StorageKeyNames ==
    {STORAGE_KEYS[n] : n \in DOMAIN STORAGE_KEYS} \cup {"undefined"}

NoItem == [type |-> "null", text |-> 0]

NaN == [type |-> "NaN", value |-> 0]

Null == [type |-> "null", value |-> 0]

Number(n) == [type |-> "number", value |-> n]

Boolean(b) == [type |-> "boolean", value |-> b]

\* value.toString()
ValueToString(v) ==
    IF v.type = "number" THEN [type |-> "numeral", text |-> v.value]
    ELSE [type |-> "literal", text |-> v.value]

\* parseFloat(item): only the text of a number parses
ParseFloat(item) == IF item.type = "numeral" THEN Number(item.text) ELSE NaN

\* JSON.parse(item): null for null, else the value the text denotes
JsonParse(item) ==
    IF item.type = "null" THEN Null
    ELSE IF item.type = "numeral" THEN Number(item.text)
    ELSE Boolean(item.text)

\* v || d: d when v is NaN, null, 0 or false
OrElse(v, d) ==
    IF v.type \in {"NaN", "null"} THEN d
    ELSE IF v.type = "number" /\ v.value = 0 THEN d
    ELSE IF v.type = "boolean" /\ v.value = FALSE THEN d
    ELSE v.value

EmptyStorage == [k \in StorageKeyNames |-> NoItem]

\* loadSettings()
LoadSettings(storage) ==
    [ masterVolume |-> OrElse(ParseFloat(storage[STORAGE_KEYS.MASTER_VOLUME]),
                              DEFAULT_SETTINGS.masterVolume),
      musicVolume  |-> OrElse(ParseFloat(storage[STORAGE_KEYS.MUSIC_VOLUME]),
                              DEFAULT_SETTINGS.musicVolume),
      sfxVolume    |-> OrElse(ParseFloat(storage[STORAGE_KEYS.SFX_VOLUME]),
                              DEFAULT_SETTINGS.sfxVolume),
      musicMuted   |-> OrElse(JsonParse(storage[STORAGE_KEYS.MUSIC_MUTED]),
                              DEFAULT_SETTINGS.musicMuted),
      sfxMuted     |-> OrElse(JsonParse(storage[STORAGE_KEYS.SFX_MUTED]),
                              DEFAULT_SETTINGS.sfxMuted) ]

\* the value of a setting as a JavaScript value
SettingValue(settings, key) ==
    IF key \in {"musicMuted", "sfxMuted"} THEN Boolean(settings[key])
    ELSE Number(settings[key])

\* Object.entries(this.settings): the settings in the order of their creation
SettingOrder == <<"masterVolume", "musicVolume", "sfxVolume", "musicMuted", "sfxMuted">>

\* saveSettings(): setItem for the entries from index i on
RECURSIVE SaveEach(_, _, _)
SaveEach(storage, settings, i) ==
    IF i > Len(SettingOrder) THEN storage
    ELSE SaveEach([storage EXCEPT ![StorageKey(ToUpperCase(SettingOrder[i]))] =
                     ValueToString(SettingValue(settings, SettingOrder[i]))],
                  settings, i + 1)

SaveSettings(storage, settings) == SaveEach(storage, settings, 1)

\* isValidVolume(volume), for a volume that is a number
isValidVolume(volume) == volume >= 0 /\ volume <= 100

\* setMasterVolume, setMusicVolume, setSfxVolume
SetVolume(settings, storage, key, volume) ==
    IF ~isValidVolume(volume)
    THEN [settings |-> settings, storage |-> storage, threw |-> TRUE]
    ELSE LET s == [settings EXCEPT ![key] = volume] IN
         [settings |-> s, storage |-> SaveSettings(storage, s), threw |-> FALSE]

\* toggleMusicMute, toggleSfxMute
ToggleMute(settings, storage, key) ==
    LET s == [settings EXCEPT ![key] = ~@] IN
    [settings |-> s, storage |-> SaveSettings(storage, s), threw |-> FALSE]

\* a call on the AudioSettings singleton
SettingsStep(op, key, value, threw) ==
    [op |-> op, key |-> key, value |-> value, threw |-> threw]

SettingsIdle ==
    /\ audioSettings = LoadSettings(EmptyStorage)
    /\ localStorage = EmptyStorage
    /\ settingsLast = SettingsStep("new", "none", 0, FALSE)
    /\ settingsSteps = 0

(***************************************************************************)
(* BackgroundMusic (src/src/audio/BackgroundMusic.js).                     *)
(*                                                                         *)
(* An Audio element is identified by the order of its construction; 0 is   *)
(* null. Its state is "paused", "pending" (play() called, its promise not  *)
(* yet settled) or "playing". play() and stop() are async: a call runs to  *)
(* its next await, and its continuation runs when what it awaits settles.  *)
(* The fades change volumes only and always resolve.                       *)
(***************************************************************************)
NoTrack == 0

\* the constructor
NewBackgroundMusic == [currentTrack |-> NoTrack, currentTrackUrl |-> "null", isPlaying |-> FALSE]

\* new Audio(); newTrack.src = url
NewAudio(url) == [url |-> url, state |-> "paused", released |-> FALSE]

\* track.pause(): a pending play() is aborted
Pause(tracks, t) == [tracks EXCEPT ![t].state = "paused"]

\* #handlePlaybackError(error)
HandlePlaybackError(m) ==
    [m EXCEPT !.isPlaying = FALSE, !.currentTrack = NoTrack, !.currentTrackUrl = "null"]

\* a play() call waiting at an await
PlayTask(pc, url, track) == [kind |-> "play", pc |-> pc, url |-> url, track |-> track]

\* a stop() call waiting for its fade-out
StopTask == [kind |-> "stop", pc |-> "fadingOut", url |-> "null", track |-> NoTrack]

\* the task at index i has returned or thrown
TaskDone(tasks, i) == SubSeq(tasks, 1, i - 1) \o SubSeq(tasks, i + 1, Len(tasks))

\* play(url, options) up to the await of the load
PlayCall(m, tracks, tasks, url) ==
    IF m.currentTrackUrl = url /\ m.isPlaying
    THEN [m |-> m, tracks |-> tracks, tasks |-> tasks]
    ELSE [ m |-> m, tracks |-> Append(tracks, NewAudio(url)),
           tasks |-> Append(tasks, PlayTask("loading", url, Len(tracks) + 1)) ]

\* play(): this.#currentTrack = newTrack; this.#currentTrackUrl = url;
\* await newTrack.play()
StartNewTrack(m, tracks, tasks, i) ==
    [ m |-> [m EXCEPT !.currentTrack = tasks[i].track, !.currentTrackUrl = tasks[i].url],
      tracks |-> [tracks EXCEPT ![tasks[i].track].state = "pending"],
      tasks |-> [tasks EXCEPT ![i].pc = "starting"] ]

\* play(): the catch block
PlayFailed(m, tracks, tasks, i) ==
    [m |-> HandlePlaybackError(m), tracks |-> tracks, tasks |-> TaskDone(tasks, i)]

\* play() after the load has settled: canplaythrough (ok) or error
PlayLoaded(m, tracks, tasks, i, ok) ==
    IF ~ok THEN PlayFailed(m, tracks, tasks, i)
    ELSE IF m.currentTrack # NoTrack
    THEN [m |-> m, tracks |-> tracks, tasks |-> [tasks EXCEPT ![i].pc = "fadingOut"]]
    ELSE StartNewTrack(m, tracks, tasks, i)

\* play() after the fade-out: this.#currentTrack.pause() (a TypeError if dispose
\* or a failed play has set it to null meanwhile), then the new track is started
PlayFadedOut(m, tracks, tasks, i) ==
    IF m.currentTrack = NoTrack
    THEN PlayFailed(m, tracks, tasks, i)
    ELSE StartNewTrack(m, Pause(tracks, m.currentTrack), tasks, i)

\* play() after newTrack.play() has settled; it rejects if the element was paused
\* or emptied meanwhile, or if the browser refuses to start it (ok = FALSE)
PlayStarted(m, tracks, tasks, i, ok) ==
    LET t == tasks[i].track IN
    IF tracks[t].state = "pending" /\ ok
    THEN [ m |-> m, tracks |-> [tracks EXCEPT ![t].state = "playing"],
           tasks |-> [tasks EXCEPT ![i].pc = "fadingIn"] ]
    ELSE PlayFailed(m, Pause(tracks, t), tasks, i)

\* play() after the fade-in
PlayFadedIn(m, tracks, tasks, i) ==
    [m |-> [m EXCEPT !.isPlaying = TRUE], tracks |-> tracks, tasks |-> TaskDone(tasks, i)]

\* stop(fadeTime) up to the await of the fade-out
StopCall(m, tracks, tasks) ==
    IF m.currentTrack = NoTrack
    THEN [m |-> m, tracks |-> tracks, tasks |-> tasks]
    ELSE [m |-> m, tracks |-> tracks, tasks |-> Append(tasks, StopTask)]

\* stop() after the fade-out; a TypeError on a null #currentTrack is caught and
\* logged
StopFadedOut(m, tracks, tasks, i) ==
    IF m.currentTrack = NoTrack
    THEN [m |-> m, tracks |-> tracks, tasks |-> TaskDone(tasks, i)]
    ELSE [ m |-> [m EXCEPT !.isPlaying = FALSE],
           tracks |-> Pause(tracks, m.currentTrack),
           tasks |-> TaskDone(tasks, i) ]

\* dispose()
MusicDispose(m, tracks) ==
    [ m |-> [m EXCEPT !.currentTrack = NoTrack, !.currentTrackUrl = "null",
                      !.isPlaying = FALSE],
      tracks |-> IF m.currentTrack = NoTrack THEN tracks
                 ELSE [Pause(tracks, m.currentTrack) EXCEPT ![m.currentTrack].released = TRUE] ]

MusicIdle ==
    /\ music = NewBackgroundMusic
    /\ musicTracks = << >>
    /\ musicTasks = << >>
    /\ musicCalls = 0

\* every component but one, left alone
OutsidePoolIdle == LoopIdle /\ SchedIdle /\ PsIdle /\ ParticleIdle /\ EmitterIdle /\ AudioIdle /\ SettingsIdle /\ MusicIdle

OutsideLoopIdle == PoolIdle /\ SchedIdle /\ PsIdle /\ ParticleIdle /\ EmitterIdle /\ AudioIdle /\ SettingsIdle /\ MusicIdle

OutsideSchedIdle == PoolIdle /\ LoopIdle /\ PsIdle /\ ParticleIdle /\ EmitterIdle /\ AudioIdle /\ SettingsIdle /\ MusicIdle

OutsidePsIdle == PoolIdle /\ LoopIdle /\ SchedIdle /\ ParticleIdle /\ EmitterIdle /\ AudioIdle /\ SettingsIdle /\ MusicIdle

OutsideParticleIdle == PoolIdle /\ LoopIdle /\ SchedIdle /\ PsIdle /\ EmitterIdle /\ AudioIdle /\ SettingsIdle /\ MusicIdle

OutsideEmitterIdle == PoolIdle /\ LoopIdle /\ SchedIdle /\ PsIdle /\ ParticleIdle /\ AudioIdle /\ SettingsIdle /\ MusicIdle

\* neither the pooled Particle nor the ParticleEmitter
OutsideAgeingIdle == PoolIdle /\ LoopIdle /\ SchedIdle /\ PsIdle /\ AudioIdle /\ SettingsIdle /\ MusicIdle

OutsideAudioIdle == PoolIdle /\ LoopIdle /\ SchedIdle /\ PsIdle /\ ParticleIdle /\ EmitterIdle /\ SettingsIdle /\ MusicIdle

OutsideSettingsIdle == PoolIdle /\ LoopIdle /\ SchedIdle /\ PsIdle /\ ParticleIdle /\ EmitterIdle /\ AudioIdle /\ MusicIdle

OutsideMusicIdle == PoolIdle /\ LoopIdle /\ SchedIdle /\ PsIdle /\ ParticleIdle /\ EmitterIdle /\ AudioIdle /\ SettingsIdle

(***************************************************************************)
(* ObjectPool: the state machine                                           *)
(***************************************************************************)
\* the configurations tried; 0 stands for an omitted (or zero) size
PoolConfigs ==
    [ initialSize : {-1, 1, 2, 3},
      maxSize     : {0, 1, 2, 4},
      autoExpand  : {"undefined", "false"},
      reset       : {"undefined", "custom"} ]
    \cup
    [ initialSize : {0},
      maxSize     : {0, 2},
      autoExpand  : {"undefined", "true"},
      reset       : {"undefined"} ]

PoolInit ==
    /\ OutsidePoolIdle
    /\ poolConfig \in PoolConfigs
    /\ objectPool = NewPool(poolConfig)
    /\ poolLast = [op |-> "new", arg |-> NoObject, threw |-> FALSE, obj |-> NoObject]
    /\ poolOps = 0

\* what a caller may pass to release: an object it holds, one of the objects it
\* gave back most recently, an object that never came from this pool, or null
ReleaseArgs(p) ==
    {Obj(i) : i \in SeqToSet(p.activeObjects)}
    \cup {Obj(p.pool[j]) : j \in {k \in 1..Len(p.pool) : k > Len(p.pool) - MaxFreeProbe}}
    \cup {[kind |-> "foreign", id |-> 0], [kind |-> "null", id |-> 0]}

PoolAcquire ==
    /\ poolOps < MaxPoolOps
    /\ LET r == Acquire(objectPool) IN
         /\ objectPool' = r.p
         /\ poolLast' = [op |-> "acquire", arg |-> NoObject, threw |-> r.threw, obj |-> r.obj]
    /\ poolOps' = poolOps + 1
    /\ UNCHANGED <<poolConfig, outsidePool>>

PoolRelease ==
    /\ poolOps < MaxPoolOps
    /\ \E arg \in ReleaseArgs(objectPool), resetThrows \in BOOLEAN :
         LET r == Release(objectPool, arg, resetThrows) IN
         /\ resetThrows => objectPool.reset # "identity" /\ IsActive(objectPool, arg)
         /\ objectPool' = r.p
         /\ poolLast' = [op |-> "release", arg |-> arg, threw |-> r.threw, obj |-> NoObject,
                         resetThrows |-> resetThrows]
    /\ poolOps' = poolOps + 1
    /\ UNCHANGED <<poolConfig, outsidePool>>

PoolReleaseAll ==
    /\ poolOps < MaxPoolOps
    /\ \E throwAt \in 0..Len(objectPool.activeObjects) :
         LET r == ReleaseAll(objectPool, throwAt) IN
         /\ throwAt > 0 => objectPool.reset # "identity"
         /\ objectPool' = r.p
         /\ poolLast' = [op |-> "releaseAll", arg |-> NoObject, threw |-> r.threw, obj |-> NoObject]
    /\ poolOps' = poolOps + 1
    /\ UNCHANGED <<poolConfig, outsidePool>>

\* the caller writes into an object it holds (obj.x = 100)
PoolUseObject ==
    /\ poolOps < MaxPoolOps
    /\ \E i \in SeqToSet(objectPool.activeObjects) :
         /\ objectPool.x[i] # FieldDirty
         /\ objectPool' = [objectPool EXCEPT !.x[i] = FieldDirty]
         /\ poolLast' = [op |-> "use", arg |-> Obj(i), threw |-> FALSE, obj |-> NoObject]
    /\ poolOps' = poolOps + 1
    /\ UNCHANGED <<poolConfig, outsidePool>>

PoolDispose ==
    /\ poolOps < MaxPoolOps
    /\ ~objectPool.disposed
    /\ objectPool' = Dispose(objectPool)
    /\ poolLast' = [op |-> "dispose", arg |-> NoObject, threw |-> FALSE, obj |-> NoObject]
    /\ poolOps' = poolOps + 1
    /\ UNCHANGED <<poolConfig, outsidePool>>

PoolNext ==
    \/ PoolAcquire
    \/ PoolRelease
    \/ PoolReleaseAll
    \/ PoolUseObject
    \/ PoolDispose

SpecPool == PoolInit /\ [][PoolNext]_vars

(***************************************************************************)
(* ObjectPool: properties                                                  *)
(***************************************************************************)
\* how often instance i occurs in the sequence s
Occurrences(s, i) == Cardinality({j \in 1..Len(s) : s[j] = i})

RECURSIVE Perms(_)
\* every order in which the elements of the set S can be listed
Perms(S) ==
    IF S = {} THEN {<< >>}
    ELSE UNION {{<<e>> \o q : q \in Perms(S \ {e})} : e \in S}

\* n successive acquire() calls, stopping at the first that throws
RECURSIVE AcquireTimes(_, _)
AcquireTimes(p, n) ==
    IF n = 0 THEN [p |-> p, threw |-> FALSE]
    ELSE LET r == AcquireTimes(p, n - 1) IN
         IF r.threw THEN r
         ELSE LET a == Acquire(r.p) IN [p |-> a.p, threw |-> a.threw]

\* spec scenario 1: initialSize=10, maxSize=10, autoExpand=false; ten acquires
\* succeed and the eleventh fails, changing nothing
PoolScenario1 ==
    LET p0 == NewPool([initialSize |-> 10, maxSize |-> 10,
                       autoExpand |-> "false", reset |-> "undefined"])
        r9 == AcquireTimes(p0, 9)
        r10 == AcquireTimes(p0, 10)
    IN  /\ ~r9.threw /\ ~r10.threw
        /\ activeSize(r10.p) = 10 /\ availableSize(r10.p) = 0
        /\ Acquire(r10.p).threw
        /\ Acquire(r10.p).p = r10.p

\* C1: as long as dispose has not been called, every instance the factory has
\* made is exactly once in the free list or the active set and never in both,
\* activeSize + availableSize equals the number of instances made, and a
\* successful acquire returns an instance that was not active before the call.
C1_PoolPartition ==
    /\ [](~objectPool.disposed =>
            /\ \A i \in 1..objectPool.created :
                 Occurrences(objectPool.pool, i) + Occurrences(objectPool.activeObjects, i) = 1
            /\ activeSize(objectPool) + availableSize(objectPool) = objectPool.created)
    /\ [][(poolLast'.op = "acquire" /\ ~poolLast'.threw)
            => /\ ~IsActive(objectPool, poolLast'.obj)
               /\ IsActive(objectPool', poolLast'.obj)]_vars

C1_Witness ==
    /\ ~objectPool.disposed
    /\ poolLast.op = "acquire" /\ ~poolLast.threw
    /\ poolOps >= 4
    /\ activeSize(objectPool) >= 2
    /\ availableSize(objectPool) >= 1
    /\ objectPool.created > objectPool.initialSize

\* C2: acquire() on an empty free list throws and leaves the pool as it was
\* whenever autoExpand is off or totalSize has reached maxSize; and scenario 1.
C2_AcquireExhausted ==
    [][/\ PoolScenario1
       /\ (/\ poolLast'.op = "acquire"
           /\ availableSize(objectPool) = 0
           /\ (~objectPool.autoExpand \/ totalSize(objectPool) >= objectPool.maxSize))
          => (poolLast'.threw /\ objectPool' = objectPool)]_vars

C2_Witness ==
    /\ poolLast.op = "acquire" /\ poolLast.threw
    /\ objectPool.autoExpand
    /\ objectPool.created > objectPool.initialSize
    /\ activeSize(objectPool) = objectPool.maxSize

\* C3: totalSize never exceeds the maxSize the pool was configured with
\* (1000 when the configuration gives none).
C3_TotalWithinConfiguredMax ==
    totalSize(objectPool) <= OrDefault(poolConfig.maxSize, DEFAULT_MAX_SIZE)

\* C4: release(x) with x not in the active set (an object from elsewhere, an
\* instance already back in the free list, null) throws and changes neither
\* the free list nor the active set.
C4_ReleaseNotActive ==
    [][(poolLast'.op = "release" /\ ~IsActive(objectPool, poolLast'.arg))
         => (poolLast'.threw /\ objectPool' = objectPool)]_vars

C4_Witness ==
    /\ poolLast.op = "release" /\ poolLast.threw
    /\ poolLast.arg.kind = "object"
    /\ Occurrences(objectPool.pool, poolLast.arg.id) = 1
    /\ activeSize(objectPool) >= 1

\* C5: when release(x) succeeds and the next call, acquire(), returns x again,
\* the field of x holds the factory's default, for every configuration.
C5_NoStaleState ==
    [][(/\ poolLast.op = "release" /\ ~poolLast.threw
        /\ poolLast'.op = "acquire" /\ ~poolLast'.threw
        /\ poolLast'.obj = poolLast.arg)
         => objectPool'.x[poolLast'.obj.id] = FieldDefault]_vars

C36_FailedResetKeepsObjectActive ==
    [][(/\ poolOps' # poolOps
        /\ poolLast'.op = "release"
        /\ poolLast'.resetThrows)
         => /\ poolLast'.threw
            /\ IsActive(objectPool', poolLast'.arg)
            /\ objectPool'.activeObjects = objectPool.activeObjects
            /\ objectPool'.pool = objectPool.pool
            /\ activeSize(objectPool') = activeSize(objectPool)
            /\ availableSize(objectPool') = availableSize(objectPool)
            /\ totalSize(objectPool') = totalSize(objectPool)]_vars

\* the reset function threw while one of two active objects was released
C36_Witness ==
    /\ poolLast.op = "release"
    /\ poolLast.resetThrows
    /\ poolLast.threw
    /\ IsActive(objectPool, poolLast.arg)
    /\ activeSize(objectPool) = 2

(***************************************************************************)
(* GameLoop: the state machine                                             *)
(***************************************************************************)
\* the configured targetFPS; 0 stands for an omitted one
TargetFPSChoices == {0, 30}

\* how far the clock moves between two steps
ClockAdvances == {Ms(7), FIXED_TIME_STEP, Ms(40), Ms(500)}

LoopInit ==
    /\ OutsideLoopIdle
    /\ \E f \in TargetFPSChoices : gameLoop = NewGameLoop(f)
    /\ now = 0
    /\ pendingFrames = 0
    /\ hidden = FALSE
    /\ loopLast = LoopStep("new", << >>)
    /\ loopSteps = 0
    /\ clockSteps = 0
    /\ loopHistory = NoHistory

\* time passes
LoopClock ==
    /\ loopSteps < MaxLoopSteps
    /\ clockSteps < MaxClockSteps
    /\ \E d \in ClockAdvances : now' = now + d
    /\ loopLast' = LoopStep("clock", << >>)
    /\ loopHistory' = [loopHistory EXCEPT !.hiddenElapsed = @ \/ hidden]
    /\ loopSteps' = loopSteps + 1
    /\ clockSteps' = clockSteps + 1
    /\ UNCHANGED <<gameLoop, pendingFrames, hidden, outsideLoop>>

\* the caller calls start()
LoopStart ==
    /\ loopSteps < MaxLoopSteps
    /\ LET r == Start(gameLoop, now) IN
         /\ gameLoop' = r.g
         /\ pendingFrames' = pendingFrames + CallsTo(r.calls, "requestAnimationFrame")
         /\ loopLast' = LoopStep("start", r.calls)
    /\ loopHistory' = [loopHistory EXCEPT
                         !.faulted = FALSE,
                         !.hiddenElapsed = @ /\ gameLoop.running]
    /\ loopSteps' = loopSteps + 1
    /\ UNCHANGED <<now, hidden, clockSteps, outsideLoop>>

LoopStop ==
    /\ loopSteps < MaxLoopSteps
    /\ gameLoop' = Stop(gameLoop)
    /\ loopLast' = LoopStep("stop", << >>)
    /\ loopHistory' = [loopHistory EXCEPT !.runningAtHide = FALSE]
    /\ loopSteps' = loopSteps + 1
    /\ UNCHANGED <<now, pendingFrames, hidden, clockSteps, outsideLoop>>

\* the host fires one requested frame callback: _loop(now); the update callback
\* may throw on its first or second call, the render callback on its call
LoopFrame ==
    /\ loopSteps < MaxLoopSteps
    /\ pendingFrames > 0
    /\ \E throwAt \in 0..2, renderThrows \in BOOLEAN :
         LET r == Loop(gameLoop, now, throwAt, renderThrows)
             n == CallsTo(r.calls, "update")
         IN
         \* the inputs say which call throws: only calls that are made can throw
         /\ throwAt > 0 => (throwAt <= n /\ CallsTo(r.calls, "render") = 0)
         /\ renderThrows => (throwAt = 0 /\ CallsTo(r.calls, "render") > 0)
         /\ throwAt > 0 => ~renderThrows
         /\ gameLoop' = r.g
         /\ pendingFrames' = pendingFrames - 1 + CallsTo(r.calls, "requestAnimationFrame")
         /\ loopLast' = [op |-> "frame", calls |-> r.calls, threw |-> r.threw,
                         ticked |-> r.ticked, throwAt |-> throwAt,
                         renderThrows |-> renderThrows]
         /\ loopHistory' = [loopHistory EXCEPT
                              !.faulted = @ \/ throwAt > 0 \/ renderThrows,
                              !.hiddenElapsed = @ /\ ~r.ticked]
    /\ loopSteps' = loopSteps + 1
    /\ UNCHANGED <<now, hidden, clockSteps, outsideLoop>>

\* the page is hidden or shown; the listener runs if it is still registered
LoopVisibilityChange ==
    /\ loopSteps < MaxLoopSteps
    /\ hidden' = ~hidden
    /\ LET r == IF gameLoop.listening
                THEN HandleVisibilityChange(gameLoop, hidden', now)
                ELSE [g |-> gameLoop, calls |-> << >>]
       IN  /\ gameLoop' = r.g
           /\ pendingFrames' = pendingFrames + CallsTo(r.calls, "requestAnimationFrame")
           /\ loopLast' = LoopStep("visibilitychange", r.calls)
    /\ loopHistory' = [loopHistory EXCEPT
                         !.hiddenElapsed = @ /\ ~(gameLoop.listening /\ hidden
                                                   /\ ~gameLoop.running),
                         !.runningAtHide = hidden' /\ gameLoop.running]
    /\ loopSteps' = loopSteps + 1
    /\ UNCHANGED <<now, clockSteps, outsideLoop>>

LoopDestroy ==
    /\ loopSteps < MaxLoopSteps
    /\ gameLoop.listening
    /\ gameLoop' = Destroy(gameLoop)
    /\ loopLast' = LoopStep("destroy", << >>)
    /\ loopSteps' = loopSteps + 1
    /\ UNCHANGED <<now, pendingFrames, hidden, clockSteps, loopHistory, outsideLoop>>

LoopNext ==
    \/ LoopClock
    \/ LoopStart
    \/ LoopStop
    \/ LoopFrame
    \/ LoopVisibilityChange
    \/ LoopDestroy

SpecLoop == LoopInit /\ [][LoopNext]_vars

(***************************************************************************)
(* GameLoop: properties                                                    *)
(***************************************************************************)
\* the step just taken was a frame callback that ticked and did not throw
CompletedFrame(last) == last.op = "frame" /\ last.ticked /\ ~last.threw

\* C7: in a frame in which no callback throws, the number of update calls is
\* floor((accumulator before + min(currentTime - lastTime, MAX_FRAME_TIME))
\* / FIXED_TIME_STEP), and every call receives the same value,
\* FIXED_TIME_STEP / 1000.
C7_UpdateCount ==
    [][CompletedFrame(loopLast')
         => /\ CallsTo(loopLast'.calls, "update")
                 = (gameLoop.accumulator + Min(now - gameLoop.lastTime, MAX_FRAME_TIME))
                     \div FIXED_TIME_STEP
            /\ \A i \in 1..Len(loopLast'.calls) :
                 loopLast'.calls[i].fn = "update" => loopLast'.calls[i].arg = UpdateArg]_vars

\* a frame whose real delta exceeded MAX_FRAME_TIME, after a frame that left time over
C7_Witness ==
    /\ CompletedFrame(loopLast)
    /\ CallsTo(loopLast.calls, "update") = (Ms(7) + MAX_FRAME_TIME) \div FIXED_TIME_STEP
    /\ gameLoop.accumulator = (Ms(7) + MAX_FRAME_TIME) % FIXED_TIME_STEP
    /\ gameLoop.frameCount = 2

\* C8: after every completed frame 0 <= accumulator < FIXED_TIME_STEP, and the
\* alpha of every render call lies in [0, 1).
C8_AccumulatorRange ==
    /\ CompletedFrame(loopLast)
         => (0 <= gameLoop.accumulator /\ gameLoop.accumulator < FIXED_TIME_STEP)
    /\ \A i \in 1..Len(loopLast.calls) :
         loopLast.calls[i].fn = "render"
           => /\ 0 <= loopLast.calls[i].arg.num
              /\ loopLast.calls[i].arg.num < loopLast.calls[i].arg.den

\* a frame that had exactly one step to simulate and one with time left over
C8_Witness ==
    /\ CompletedFrame(loopLast)
    /\ CallsTo(loopLast.calls, "update") = 1
    /\ gameLoop.accumulator = 0
    /\ now = 2 * FIXED_TIME_STEP
    /\ gameLoop.frameCount = 2

\* C9: a frame that fires while the loop is running and in which no callback
\* throws calls update zero or more times, then render exactly once, then
\* requests exactly one next frame.
C9_FrameOrder ==
    [][(loopLast'.op = "frame" /\ gameLoop.running /\ ~loopLast'.threw)
         => LET calls == loopLast'.calls
                n == Len(calls)
            IN  /\ n >= 2
                /\ \A i \in 1..(n - 2) : calls[i].fn = "update"
                /\ calls[n - 1].fn = "render"
                /\ calls[n].fn = "requestAnimationFrame"
                /\ pendingFrames' = pendingFrames]_vars

C9_Witness ==
    /\ CompletedFrame(loopLast)
    /\ CallsTo(loopLast.calls, "update") >= 2
    /\ CallsTo(loopLast.calls, "render") = 1
    /\ pendingFrames = 1
    /\ gameLoop.running

\* C10: start() on a running loop changes nothing (running, lastTime,
\* accumulator and the other fields) and requests no frame.
C10_StartIdempotent ==
    [][(loopLast'.op = "start" /\ gameLoop.running)
         => /\ gameLoop' = gameLoop
            /\ pendingFrames' = pendingFrames
            /\ loopLast'.calls = << >>]_vars

\* start() was called on a running loop some time after it had last ticked
C10_Witness ==
    /\ loopLast.op = "start"
    /\ loopLast.calls = << >>
    /\ gameLoop.running
    /\ gameLoop.lastTime < now
    /\ gameLoop.accumulator > 0
    /\ pendingFrames = 1

\* C11: stop() clears the running flag, and a frame callback that fires while
\* the flag is clear (start() not called since, by the caller or by the
\* visibility listener) calls neither update nor render, changes nothing in
\* the loop and requests no further frame.
C11_StoppedFrameIdle ==
    [][/\ loopLast'.op = "stop" => ~gameLoop'.running
       /\ (loopLast'.op = "frame" /\ ~gameLoop.running)
            => /\ loopLast'.calls = << >>
               /\ ~loopLast'.ticked
               /\ gameLoop' = gameLoop
               /\ pendingFrames' = pendingFrames - 1]_vars

\* the frame scheduled before stop() has fired on a loop that had ticked before
C11_Witness ==
    /\ loopLast.op = "frame"
    /\ ~loopLast.ticked
    /\ ~gameLoop.running
    /\ ~loopHistory.faulted
    /\ ~hidden
    /\ gameLoop.listening
    /\ gameLoop.frameCount >= 1
    /\ pendingFrames = 0

C29_StepIsTargetFrameTime ==
    [][CompletedFrame(loopLast')
         => /\ CallsTo(loopLast'.calls, "update")
                 = (gameLoop.accumulator + Min(now - gameLoop.lastTime, MAX_FRAME_TIME))
                     \div gameLoop.frameTime
            /\ \A i \in 1..Len(loopLast'.calls) :
                 loopLast'.calls[i].fn = "update"
                   => loopLast'.calls[i].arg = gameLoop.frameTime \div 1000]_vars

C33_OnePendingFrame == pendingFrames <= 1

\* C35: a visibility change to visible does not start a loop that was not running
\* when the page became hidden, or that the caller has stopped since.
C35_ShowResumesOnlyPausedLoop ==
    [][(/\ loopSteps' # loopSteps
        /\ loopLast'.op = "visibilitychange"
        /\ ~hidden'
        /\ ~loopHistory.runningAtHide)
         => ~(~gameLoop.running /\ gameLoop'.running)]_vars

\* C13: no frame callback ends by throwing: an error of the update or render
\* callback does not leave _loop.
C13_ErrorContained == loopLast.op = "frame" => ~loopLast.threw

\* C14: after a callback has thrown, and until the caller calls start(), no
\* step makes an update or render call.
C14_NoResumeAfterFault ==
    [][loopHistory.faulted
         => /\ CallsTo(loopLast'.calls, "update") = 0
            /\ CallsTo(loopLast'.calls, "render") = 0]_vars

\* C15: with the visibility listener registered, hiding the page stops the
\* loop and showing it leaves the loop running; a loop the listener starts
\* has lastTime = now; and no frame ticks over a span (lastTime, now] during
\* part of which the page was hidden.
C15_HiddenTimeSkipped ==
    [][/\ (loopLast'.op = "visibilitychange" /\ gameLoop.listening)
            => /\ hidden' => ~gameLoop'.running
               /\ ~hidden' => gameLoop'.running
               /\ (~hidden' /\ ~gameLoop.running) => gameLoop'.lastTime = now
       /\ (loopLast'.op = "frame" /\ loopLast'.ticked)
            => ~loopHistory.hiddenElapsed]_vars

(***************************************************************************)
(* Canvas and Renderer: the state machine                                  *)
(***************************************************************************)
CanvasFpsChoices == {0, 30}

SchedAdvances == {FRAME_TIME, Ms(40), Ms(500)}

SchedInit ==
    /\ OutsideSchedIdle
    /\ \E f \in CanvasFpsChoices : canvas = NewCanvas(f)
    /\ renderer = NewRenderer
    /\ schedEnv = [now |-> 0, canvasFrames |-> 0, rendererFrames |-> 0, steps |-> 0]
    /\ schedLast = SchedStep("new", << >>, FALSE)

\* time passes
SchedClock ==
    /\ schedEnv.steps < MaxSchedSteps
    /\ \E d \in SchedAdvances :
         schedEnv' = [schedEnv EXCEPT !.now = @ + d, !.steps = @ + 1]
    /\ schedLast' = SchedStep("clock", << >>, FALSE)
    /\ UNCHANGED <<canvas, renderer, outsideSched>>

SchedCanvasStart ==
    /\ schedEnv.steps < MaxSchedSteps
    /\ LET r == CanvasStart(canvas, schedEnv.now) IN
         /\ canvas' = r.c
         /\ schedEnv' = [schedEnv EXCEPT
                           !.canvasFrames = @ + CallsTo(r.calls, "requestAnimationFrame"),
                           !.steps = @ + 1]
         /\ schedLast' = SchedStep("Canvas.start", r.calls, r.threw)
    /\ UNCHANGED <<renderer, outsideSched>>

SchedCanvasStop ==
    /\ schedEnv.steps < MaxSchedSteps
    /\ canvas' = CanvasStop(canvas)
    /\ schedEnv' = [schedEnv EXCEPT !.steps = @ + 1]
    /\ schedLast' = SchedStep("Canvas.stop", << >>, FALSE)
    /\ UNCHANGED <<renderer, outsideSched>>

\* the host fires a requested frame callback of the Canvas; the update callback
\* may throw on its first call, the render callback on its call
SchedCanvasFrame ==
    /\ schedEnv.steps < MaxSchedSteps
    /\ schedEnv.canvasFrames > 0
    /\ \E throwAt \in 0..1, renderThrows \in BOOLEAN :
         LET r == CanvasGameLoop(canvas, schedEnv.now, throwAt, renderThrows) IN
         /\ throwAt > 0 => (throwAt <= CallsTo(r.calls, "update")
                              /\ CallsTo(r.calls, "render") = 0)
         /\ renderThrows => (throwAt = 0 /\ CallsTo(r.calls, "render") > 0)
         /\ canvas' = r.c
         /\ schedEnv' = [schedEnv EXCEPT
                           !.canvasFrames = @ - 1 + CallsTo(r.calls, "requestAnimationFrame"),
                           !.steps = @ + 1]
         /\ schedLast' = SchedStep("Canvas.gameLoop", r.calls, FALSE)
    /\ UNCHANGED <<renderer, outsideSched>>

SchedRendererStart ==
    /\ schedEnv.steps < MaxSchedSteps
    /\ LET r == RendererStart(renderer, schedEnv.now) IN
         /\ renderer' = r.r
         /\ schedEnv' = [schedEnv EXCEPT
                           !.rendererFrames = @ + CallsTo(r.calls, "requestAnimationFrame"),
                           !.steps = @ + 1]
         /\ schedLast' = SchedStep("Renderer.start", r.calls, r.threw)
    /\ UNCHANGED <<canvas, outsideSched>>

SchedRendererStop ==
    /\ schedEnv.steps < MaxSchedSteps
    /\ renderer' = RendererStop(renderer)
    /\ schedEnv' = [schedEnv EXCEPT !.steps = @ + 1]
    /\ schedLast' = SchedStep("Renderer.stop", << >>, FALSE)
    /\ UNCHANGED <<canvas, outsideSched>>

\* the host fires a requested frame callback of the Renderer
SchedRendererFrame ==
    /\ schedEnv.steps < MaxSchedSteps
    /\ schedEnv.rendererFrames > 0
    /\ \E throwAt \in 0..1, renderThrows \in BOOLEAN :
         LET r == RendererGameLoop(renderer, schedEnv.now, throwAt, renderThrows) IN
         /\ throwAt > 0 => (throwAt <= CallsTo(r.calls, "update")
                              /\ CallsTo(r.calls, "render") = 0)
         /\ renderThrows => (throwAt = 0 /\ CallsTo(r.calls, "render") > 0)
         /\ renderer' = r.r
         /\ schedEnv' = [schedEnv EXCEPT
                           !.rendererFrames = @ - 1 + CallsTo(r.calls, "requestAnimationFrame"),
                           !.steps = @ + 1]
         /\ schedLast' = SchedStep("Renderer.gameLoop", r.calls, FALSE)
    /\ UNCHANGED <<canvas, outsideSched>>

SchedNext ==
    \/ SchedClock
    \/ SchedCanvasStart
    \/ SchedCanvasStop
    \/ SchedCanvasFrame
    \/ SchedRendererStart
    \/ SchedRendererStop
    \/ SchedRendererFrame

SpecSched == SchedInit /\ [][SchedNext]_vars

(***************************************************************************)
(* Canvas and Renderer: properties                                         *)
(***************************************************************************)
\* C16: in the Canvas and the Renderer scheduler, as in GameLoop._loop, a
\* frame makes at most MAX_FRAME_TIME / FIXED_TIME_STEP update calls and
\* leaves at most MAX_FRAME_TIME in the accumulator, whatever the real delta
\* of the frame was.
C16_CatchUpCapped ==
    /\ schedLast.op \in {"Canvas.gameLoop", "Renderer.gameLoop"}
         => CallsTo(schedLast.calls, "update") <= MAX_FRAME_TIME \div FIXED_TIME_STEP
    /\ canvas.accumulator <= MAX_FRAME_TIME
    /\ renderer.accumulator <= MAX_FRAME_TIME

(***************************************************************************)
(* ParticleSystem: the state machine                                       *)
(***************************************************************************)
\* options.config.MAX_PARTICLES
MaxParticlesChoices == {0, 2, 3}

\* the options of createExplosion: count omitted, or given
ExplosionOptions ==
    {[hasCount |-> FALSE, count |-> 0]} \cup {[hasCount |-> TRUE, count |-> n] : n \in -1..2}

\* the x handed to createExplosion: a finite number, NaN, or null
ExplosionPositions == {"finite", "NaN", "missing"}

\* values of 0.8 + Math.random() * 0.4, in percent
LifetimeFactors == {80, 100}

PsAdvances == {400, 1600}

PsInit ==
    /\ OutsidePsIdle
    /\ \E m \in MaxParticlesChoices : particleSystem = NewParticleSystem(m, 0)
    /\ psEnv = [now |-> 0, frames |-> 0, steps |-> 0]
    /\ psLast = PsStep("new", 0, << >>, FALSE)

\* time passes
PsClock ==
    /\ psEnv.steps < MaxPsSteps
    /\ \E d \in PsAdvances : psEnv' = [psEnv EXCEPT !.now = @ + d, !.steps = @ + 1]
    /\ psLast' = PsStep("clock", 0, << >>, FALSE)
    /\ UNCHANGED <<particleSystem, outsidePs>>

\* createExplosion(x, y, options); a lifetime factor is drawn for each particle
\* the loop can reach
PsCreateExplosion ==
    /\ psEnv.steps < MaxPsSteps
    /\ \E options \in ExplosionOptions, x \in ExplosionPositions :
         LET count == CountOf(particleSystem, options)
             room == particleSystem.config.MAX_PARTICLES - Len(particleSystem.particles)
         IN  \E rand \in [1..Min(count, room) -> LifetimeFactors] :
               LET r == CreateExplosion(particleSystem, x, options, rand, psEnv.now) IN
               /\ particleSystem' = r.ps
               /\ psLast' = [PsStep("createExplosion", count, r.calls, FALSE)
                               EXCEPT !.x = x]
    /\ psEnv' = [psEnv EXCEPT !.steps = @ + 1]
    /\ UNCHANGED outsidePs

\* the caller calls update()
PsUpdate ==
    /\ psEnv.steps < MaxPsSteps
    /\ LET r == SystemUpdate(particleSystem, psEnv.now) IN
         /\ particleSystem' = r.ps
         /\ psLast' = PsStep("update", 0, r.calls, FALSE)
    /\ psEnv' = [psEnv EXCEPT !.steps = @ + 1]
    /\ UNCHANGED outsidePs

PsStart ==
    /\ psEnv.steps < MaxPsSteps
    /\ LET r == SystemStart(particleSystem, psEnv.now) IN
         /\ particleSystem' = r.ps
         /\ psEnv' = [psEnv EXCEPT
                        !.frames = @ + CallsTo(r.calls, "requestAnimationFrame"),
                        !.steps = @ + 1]
         /\ psLast' = PsStep("start", 0, r.calls, r.threw)
    /\ UNCHANGED outsidePs

PsStop ==
    /\ psEnv.steps < MaxPsSteps
    /\ particleSystem' = SystemStop(particleSystem)
    /\ psEnv' = [psEnv EXCEPT !.steps = @ + 1]
    /\ psLast' = PsStep("stop", 0, << >>, FALSE)
    /\ UNCHANGED outsidePs

\* the host fires a requested animate callback
PsFrame ==
    /\ psEnv.steps < MaxPsSteps
    /\ psEnv.frames > 0
    /\ LET r == Animate(particleSystem, psEnv.now) IN
         /\ particleSystem' = r.ps
         /\ psEnv' = [psEnv EXCEPT
                        !.frames = @ - 1 + CallsTo(r.calls, "requestAnimationFrame"),
                        !.steps = @ + 1]
         /\ psLast' = PsStep("animate", 0, r.calls, r.threw)
    /\ UNCHANGED outsidePs

PsDispose ==
    /\ psEnv.steps < MaxPsSteps
    /\ particleSystem' = SystemDispose(particleSystem)
    /\ psEnv' = [psEnv EXCEPT !.steps = @ + 1]
    /\ psLast' = PsStep("dispose", 0, << >>, FALSE)
    /\ UNCHANGED outsidePs

PsNext ==
    \/ PsClock
    \/ PsCreateExplosion
    \/ PsUpdate
    \/ PsStart
    \/ PsStop
    \/ PsFrame
    \/ PsDispose

SpecPs == PsInit /\ [][PsNext]_vars

(***************************************************************************)
(* ParticleSystem: properties                                              *)
(***************************************************************************)
\* C17: createExplosion with requested count N >= 0 on k live particles leaves
\* min(MAX_PARTICLES, k + N) live particles, the k earlier ones among them;
\* the live count is at most MAX_PARTICLES after every step; and no step but
\* createExplosion adds a particle, so what a request could not place is never
\* placed later.
C17_ExplosionTruncated ==
    [][LET k == Len(particleSystem.particles)
           k2 == Len(particleSystem'.particles)
           maxParticles == particleSystem.config.MAX_PARTICLES
       IN  /\ k2 <= particleSystem'.config.MAX_PARTICLES
           /\ (psLast'.op = "createExplosion" /\ psLast'.requested >= 0)
                => /\ k2 = Min(maxParticles, k + psLast'.requested)
                   /\ SubSeq(particleSystem'.particles, 1, k) = particleSystem.particles
                   /\ CallsTo(psLast'.calls, "new Particle") = k2 - k
           /\ psLast'.op # "createExplosion" => k2 <= k]_vars

\* a request for the default batch of 100 on one live particle filled the system
\* up to its limit of 3
C17_Witness ==
    /\ psLast.op = "createExplosion"
    /\ psLast.requested = DEFAULT_CONFIG.BATCH_SIZE
    /\ CallsTo(psLast.calls, "new Particle") = 2
    /\ CallsTo(psLast.calls, "console.warn") = 1
    /\ Len(particleSystem.particles) = 3
    /\ particleSystem.config.MAX_PARTICLES = 3

\* C26: an emission request with a negative count or with a position that is
\* missing or not finite throws and adds no particle to the system.
C26_InvalidEmissionRejected ==
    [][(/\ psEnv'.steps # psEnv.steps
        /\ psLast'.op = "createExplosion"
        /\ (psLast'.requested < 0 \/ psLast'.x # "finite"))
         => /\ psLast'.threw
            /\ particleSystem'.particles = particleSystem.particles]_vars

\* C19: a ParticleSystem constructs no particle when it emits (it takes them
\* from a pool) and hands every particle that update removes back to the pool.
C19_ParticlesPooled ==
    /\ psLast.op = "createExplosion" => CallsTo(psLast.calls, "new Particle") = 0
    /\ psLast.op \in {"update", "animate", "start"}
         => CallsTo(psLast.calls, "particles.delete") = CallsTo(psLast.calls, "release")

(***************************************************************************)
(* Pooled Particle: the state machine. A caller keeps the reference that   *)
(* create returned and may call update and destroy on it at any time.      *)
(***************************************************************************)
\* x: a finite number, NaN, Infinity or a string; lifetime and alpha: omitted
\* or given
ParticleConfig(xType, hasLifetime, lifetime, hasAlpha, alphaNum) ==
    [ xType |-> xType, x |-> 0, speed |-> 100,
      hasLifetime |-> hasLifetime, lifetime |-> lifetime,
      hasAlpha |-> hasAlpha, alpha |-> [num |-> alphaNum, den |-> 1] ]

ParticleConfigs ==
    { ParticleConfig("finite", FALSE, 0, FALSE, 1),
      ParticleConfig("finite", TRUE, 50, FALSE, 1),
      ParticleConfig("string", TRUE, 50, FALSE, 1),
      ParticleConfig("NaN", TRUE, 50, FALSE, 1),
      ParticleConfig("Infinity", TRUE, 50, FALSE, 1),
      ParticleConfig("finite", TRUE, 0, FALSE, 1),
      ParticleConfig("finite", TRUE, -5, FALSE, 1),
      ParticleConfig("finite", TRUE, 50, TRUE, 2) }

\* the deltas handed to update, in ms
ParticleDeltas == {-10, 20, 30, 1000}

ParticleInitial ==
    /\ OutsideParticleIdle
    /\ particlePool = << >>
    /\ particleObjs = << >>
    /\ particleFed = << >>
    /\ particleLast = ParticleStep("none", 0, 0, FALSE, FALSE)
    /\ particleOps = 0

\* Particle.create(config)
ParticleCreateCall ==
    /\ particleOps < MaxParticleOps
    /\ Len(particlePool) > 0 \/ Len(particleObjs) < MaxParticleObjs
    /\ \E config \in ParticleConfigs :
         LET r == ParticleCreate(particlePool, particleObjs, config) IN
         /\ particlePool' = r.pool
         /\ particleObjs' = r.objs
         /\ particleFed' = IF r.id > Len(particleFed) THEN Append(particleFed, 0)
                           ELSE IF r.threw THEN particleFed
                           ELSE [particleFed EXCEPT ![r.id] = 0]
         /\ particleLast' = [ParticleStep("create", r.id, config.lifetime, ~r.threw, r.threw)
                                EXCEPT !.config = config]
    /\ particleOps' = particleOps + 1
    /\ UNCHANGED outsideParticle

\* particle.update(deltaTime) on an instance the caller holds
ParticleUpdateCall ==
    /\ particleOps < MaxParticleOps
    /\ \E id \in 1..Len(particleObjs), deltaTime \in ParticleDeltas :
         LET r == ParticleUpdate(particlePool, particleObjs, id, deltaTime) IN
         /\ particlePool' = r.pool
         /\ particleObjs' = r.objs
         /\ particleFed' = [particleFed EXCEPT ![id] = @ + deltaTime]
         /\ particleLast' = ParticleStep("update", id, deltaTime, r.alive, FALSE)
    /\ particleOps' = particleOps + 1
    /\ UNCHANGED outsideParticle

\* particle.destroy() on an instance the caller holds
ParticleDestroyCall ==
    /\ particleOps < MaxParticleOps
    /\ \E id \in 1..Len(particleObjs) :
         LET r == ParticleDestroy(particlePool, particleObjs, id) IN
         /\ particlePool' = r.pool
         /\ particleObjs' = r.objs
         /\ particleLast' = ParticleStep("destroy", id, 0, FALSE, FALSE)
    /\ particleOps' = particleOps + 1
    /\ UNCHANGED <<particleFed, outsideParticle>>

ParticleNext ==
    \/ ParticleCreateCall
    \/ ParticleUpdateCall
    \/ ParticleDestroyCall

SpecParticle == ParticleInitial /\ [][ParticleNext]_vars

(***************************************************************************)
(* Pooled Particle: properties                                             *)
(***************************************************************************)
\* C18: every instance in the static pool is inactive and is there only once.
C18_PoolHoldsIdleOnce ==
    \A i \in 1..Len(particlePool) :
      /\ ~particleObjs[particlePool[i]].active
      /\ \A j \in 1..Len(particlePool) : particlePool[i] = particlePool[j] => i = j

\* C21: once update has returned false the instance is inactive, and an update
\* call on an inactive instance, whatever its delta, returns false and changes
\* no field of any instance and nothing in the static pool.
C21_DeadStaysDead ==
    [][(particleOps' # particleOps /\ particleLast'.op = "update")
         => LET id == particleLast'.id
            IN  /\ ~particleLast'.alive => ~particleObjs'[id].active
                /\ ~particleObjs[id].active
                     => /\ ~particleLast'.alive
                        /\ particleObjs' = particleObjs
                        /\ particlePool' = particlePool]_vars

\* an update with a negative delta on an instance that an earlier update had
\* already turned down: it has been fed more deltas than it has aged by
C21_Witness ==
    /\ particleLast.op = "update"
    /\ particleLast.arg < 0
    /\ ~particleLast.alive
    /\ ~particleObjs[particleLast.id].active
    /\ particleObjs[particleLast.id].elapsed >= particleObjs[particleLast.id].lifetime
    /\ particleFed[particleLast.id] < particleObjs[particleLast.id].elapsed

\* a fraction that is a number between 0 and 1
AlphaInRange(a) ==
    IF a.den > 0 THEN 0 <= a.num /\ a.num <= a.den
    ELSE IF a.den < 0 THEN a.den <= a.num /\ a.num <= 0
    ELSE FALSE

\* C22: the alpha of every active pooled Particle is between 0 and 1.
C22_AlphaInRange ==
    \A id \in 1..Len(particleObjs) :
      particleObjs[id].active => AlphaInRange(particleObjs[id].alpha)

\* C23: an update call does not throw and never decreases the elapsed age of
\* the particle, which is never negative.
C23_AgeNeverDecreases ==
    [][(particleOps' # particleOps /\ particleLast'.op = "update")
         => LET id == particleLast'.id
            IN  /\ ~particleLast'.threw
                /\ particleObjs'[id].elapsed >= particleObjs[id].elapsed
                /\ particleObjs'[id].elapsed >= 0]_vars

\* C24: create with a configuration whose position is not a finite number or
\* whose lifetime is <= 0 throws, and init leaves the instance it was called on
\* as it was.
C24_InvalidConfigRejected ==
    [][(/\ particleOps' # particleOps
        /\ particleLast'.op = "create"
        /\ \/ particleLast'.config.xType # "finite"
           \/ particleLast'.config.hasLifetime /\ particleLast'.config.lifetime <= 0)
         => /\ particleLast'.threw
            /\ particleLast'.id <= Len(particleObjs)
                 => particleObjs'[particleLast'.id] = particleObjs[particleLast'.id]]_vars

\* C25: a create call that throws leaves the static pool and every instance
\* as they were.
C25_RejectedCreateNotApplied ==
    [][(particleOps' # particleOps /\ particleLast'.op = "create" /\ particleLast'.threw)
         => /\ particlePool' = particlePool
            /\ \A id \in 1..Len(particleObjs) : particleObjs'[id] = particleObjs[id]]_vars

(***************************************************************************)
(* ParticleEmitter: the state machine                                      *)
(***************************************************************************)
\* config.lifetime; 0 stands for an omitted one
EmitterLifetimes == {0, 50}

\* the count given to emit
EmitCounts == -1..2

\* the velocities createParticle can draw
VelocityChoices == {-16, 16}

\* the deltas a caller hands to update, in ms
EmitterDeltas == {-10, 20, 30}

EmitterAdvances == {20, 30, 2000}

EmitterInit ==
    /\ OutsideEmitterIdle
    /\ \E l \in EmitterLifetimes : emitter = NewEmitter(l, 0)
    /\ emitterEnv = [now |-> 0, frames |-> 0, steps |-> 0]
    /\ emitterLast = EmitterStep("new", 0, NoDelta)

\* time passes
EmitterClock ==
    /\ emitterEnv.steps < MaxEmitterSteps
    /\ \E d \in EmitterAdvances :
         emitterEnv' = [emitterEnv EXCEPT !.now = @ + d, !.steps = @ + 1]
    /\ emitterLast' = EmitterStep("clock", 0, NoDelta)
    /\ UNCHANGED <<emitter, outsideEmitter>>

\* emit(count)
EmitterEmit ==
    /\ emitterEnv.steps < MaxEmitterSteps
    /\ \E count \in EmitCounts : \E velocities \in [1..count -> VelocityChoices] :
         LET r == Emit(emitter, count, velocities, emitterEnv.now) IN
         /\ emitter' = r.em
         /\ emitterEnv' = [emitterEnv EXCEPT
                             !.frames = @ + CallsTo(r.calls, "requestAnimationFrame"),
                             !.steps = @ + 1]
         /\ emitterLast' = EmitterStep("emit", count, r.delta)
    /\ UNCHANGED outsideEmitter

\* the caller calls update(deltaTime)
EmitterUpdateCall ==
    /\ emitterEnv.steps < MaxEmitterSteps
    /\ \E deltaTime \in EmitterDeltas :
         /\ emitter' = EmitterUpdate(emitter, deltaTime)
         /\ emitterLast' = EmitterStep("update", deltaTime,
                                       [passed |-> TRUE, deltaTime |-> deltaTime])
    /\ emitterEnv' = [emitterEnv EXCEPT !.steps = @ + 1]
    /\ UNCHANGED outsideEmitter

\* the host fires a requested animate callback
EmitterFrame ==
    /\ emitterEnv.steps < MaxEmitterSteps
    /\ emitterEnv.frames > 0
    /\ LET r == EmitterAnimate(emitter, emitterEnv.now) IN
         /\ emitter' = r.em
         /\ emitterEnv' = [emitterEnv EXCEPT
                             !.frames = @ - 1 + CallsTo(r.calls, "requestAnimationFrame"),
                             !.steps = @ + 1]
         /\ emitterLast' = EmitterStep("animate", 0, r.delta)
    /\ UNCHANGED outsideEmitter

EmitterStopCall ==
    /\ emitterEnv.steps < MaxEmitterSteps
    /\ emitter' = EmitterStop(emitter)
    /\ emitterEnv' = [emitterEnv EXCEPT !.steps = @ + 1]
    /\ emitterLast' = EmitterStep("stop", 0, NoDelta)
    /\ UNCHANGED outsideEmitter

EmitterNext ==
    \/ EmitterClock
    \/ EmitterEmit
    \/ EmitterUpdateCall
    \/ EmitterFrame
    \/ EmitterStopCall

SpecEmitter == EmitterInit /\ [][EmitterNext]_vars

(***************************************************************************)
(* ParticleEmitter under a host that fires every requested animation frame *)
(* and whose clock keeps advancing. The caller makes at most MaxLiveCalls   *)
(* calls of emit and stop (update is private). The clock of the model runs  *)
(* up to LiveHorizon, and emit is called while the particles it creates can *)
(* still expire before the clock stops.                                     *)
(***************************************************************************)
\* the configured lifetimes whose particles expire within the horizon
LiveLifetimes == {l \in EmitterLifetimes : 0 < l /\ l <= LiveHorizon}

LiveInit ==
    /\ OutsideEmitterIdle
    /\ \E l \in LiveLifetimes : emitter = NewEmitter(l, 0)
    /\ emitterEnv = [now |-> 0, frames |-> 0, steps |-> 0]
    /\ emitterLast = EmitterStep("new", 0, NoDelta)

\* time passes
LiveClock ==
    /\ emitterEnv.now < LiveHorizon
    /\ \E d \in EmitterAdvances : emitterEnv' = [emitterEnv EXCEPT !.now = @ + d]
    /\ emitterLast' = EmitterStep("clock", 0, NoDelta)
    /\ UNCHANGED <<emitter, outsideEmitter>>

\* emit(count)
LiveEmit ==
    /\ emitterEnv.steps < MaxLiveCalls
    /\ emitterEnv.now + emitter.lifetime <= LiveHorizon
    /\ \E count \in EmitCounts : \E velocities \in [1..count -> VelocityChoices] :
         LET r == Emit(emitter, count, velocities, emitterEnv.now) IN
         /\ emitter' = r.em
         /\ emitterEnv' = [emitterEnv EXCEPT
                             !.frames = @ + CallsTo(r.calls, "requestAnimationFrame"),
                             !.steps = @ + 1]
         /\ emitterLast' = EmitterStep("emit", count, r.delta)
    /\ UNCHANGED outsideEmitter

\* stop()
LiveStop ==
    /\ emitterEnv.steps < MaxLiveCalls
    /\ emitter' = EmitterStop(emitter)
    /\ emitterEnv' = [emitterEnv EXCEPT !.steps = @ + 1]
    /\ emitterLast' = EmitterStep("stop", 0, NoDelta)
    /\ UNCHANGED outsideEmitter

\* the host fires a requested animate callback
LiveFrame ==
    /\ emitterEnv.frames > 0
    /\ LET r == EmitterAnimate(emitter, emitterEnv.now) IN
         /\ emitter' = r.em
         /\ emitterEnv' = [emitterEnv EXCEPT
                             !.frames = @ - 1 + CallsTo(r.calls, "requestAnimationFrame")]
         /\ emitterLast' = EmitterStep("animate", 0, r.delta)
    /\ UNCHANGED outsideEmitter

LiveNext ==
    \/ LiveClock
    \/ LiveEmit
    \/ LiveStop
    \/ LiveFrame

\* every requested frame fires, and time advances
SpecEmitterLive ==
    LiveInit /\ [][LiveNext]_vars /\ WF_vars(LiveFrame) /\ WF_vars(LiveClock)

(***************************************************************************)
(* ParticleEmitter: properties                                             *)
(***************************************************************************)
\* C38: once emit is called no more, and with every requested animation frame
\* firing and time advancing, the emitter eventually holds no particle, is
\* inactive and has no animation frame requested, and stays so.
C38_EmitterQuiesces ==
    <>[](/\ Len(emitter.particles) = 0
         /\ ~emitter.isActive
         /\ emitterEnv.frames = 0)

\* a callback chain that had run at some time after construction has ended: its
\* last callback found the emitter inactive and requested no successor
C38_Witness ==
    /\ emitterLast.op = "animate"
    /\ ~emitterLast.delta.passed
    /\ emitter.lastUpdate > 0
    /\ emitterEnv.now > emitter.lastUpdate
    /\ Len(emitter.particles) = 0
    /\ ~emitter.isActive
    /\ emitterEnv.frames = 0

\* C27: an update with a negative deltaTime throws and leaves the position,
\* velocity, remaining life and opacity of every live particle as they were.
C27_NegativeDeltaRejected ==
    [][(/\ emitterEnv'.steps # emitterEnv.steps
        /\ emitterLast'.op = "update"
        /\ emitterLast'.arg < 0)
         => /\ emitterLast'.threw
            /\ emitter'.particles = emitter.particles]_vars

\* C28: after emit(count) with count >= 1 the emitter is active and holds
\* count particles more than before.
C28_EmitAddsCount ==
    [][(/\ emitterEnv'.steps # emitterEnv.steps
        /\ emitterLast'.op = "emit"
        /\ emitterLast'.arg >= 1)
         => /\ emitter'.isActive
            /\ Len(emitter'.particles) = Len(emitter.particles) + emitterLast'.arg]_vars

\* C34: at most one animation-frame callback is pending for a ParticleEmitter
\* at any time.
C34_OnePendingCallback == emitterEnv.frames <= 1

\* C37: between operations a ParticleEmitter is active exactly when it holds at
\* least one particle.
C37_ActiveIffParticles == emitter.isActive <=> Len(emitter.particles) > 0

\* an animation callback has removed the last particles of an active emitter
C37_Witness ==
    /\ emitterLast.op = "animate"
    /\ emitterLast.delta.passed
    /\ emitterLast.delta.deltaTime > 0
    /\ ~emitter.isActive
    /\ Len(emitter.particles) = 0

(***************************************************************************)
(* Particle ageing, in the pooled Particle class and the ParticleEmitter.  *)
(* The two share no state: a behaviour exercises one of them and leaves    *)
(* the other as constructed, with no steps to take.                        *)
(***************************************************************************)
AgeingInit ==
    /\ OutsideAgeingIdle
    /\ particlePool = << >>
    /\ particleObjs = << >>
    /\ particleFed = << >>
    /\ particleLast = ParticleStep("none", 0, 0, FALSE, FALSE)
    /\ emitterLast = EmitterStep("new", 0, NoDelta)
    /\ \/ /\ particleOps = 0
          /\ emitter = NewEmitter(0, 0)
          /\ emitterEnv = [now |-> 0, frames |-> 0, steps |-> MaxEmitterSteps]
       \/ /\ particleOps = MaxParticleOps
          /\ \E l \in EmitterLifetimes : emitter = NewEmitter(l, 0)
          /\ emitterEnv = [now |-> 0, frames |-> 0, steps |-> 0]

AgeingNext == ParticleNext \/ EmitterNext

SpecAgeing == AgeingInit /\ [][AgeingNext]_vars

\* the particles an emitter step hands to update: those it held before, and
\* those an emit call has just created
FedToUpdate ==
    IF emitterLast'.op = "emit"
    THEN emitter.particles
           \o [i \in 1..emitterLast'.arg |-> [fed |-> 0, maxLife |-> emitter.lifetime]]
    ELSE emitter.particles

\* C20: a particle with lifetime L > 0 is live exactly while the sum of the
\* deltas passed to update since it was initialised is below L. For the pooled
\* Particle: an update call on an active instance returns true and leaves it
\* active if and only if the sum is still below L afterwards. For the
\* ParticleEmitter: every particle it holds has a sum below L, and an update
\* removes exactly the particles whose sum has reached L.
C20_ExpiryExact ==
    [][/\ \A id \in 1..Len(particleObjs) :
            ( /\ particleOps' # particleOps
              /\ particleLast'.op = "update"
              /\ particleLast'.id = id
              /\ particleObjs[id].active
              /\ particleObjs[id].lifetime > 0 )
            => /\ particleLast'.alive <=> (particleFed'[id] < particleObjs[id].lifetime)
               /\ particleObjs'[id].active <=> (particleFed'[id] < particleObjs[id].lifetime)
               /\ particleFed'[id] = particleFed[id] + particleLast'.arg
       /\ \A id \in 1..Len(particleObjs') :
            (particleObjs'[id].active /\ particleObjs'[id].lifetime > 0)
              => particleFed'[id] < particleObjs'[id].lifetime
       /\ \A i \in 1..Len(emitter'.particles) :
            emitter'.particles[i].maxLife > 0
              => emitter'.particles[i].fed < emitter'.particles[i].maxLife
       /\ (emitterEnv'.steps # emitterEnv.steps /\ emitterLast'.delta.passed
             /\ emitter.lifetime > 0)
            => Len(emitter'.particles)
                 = Cardinality({i \in 1..Len(FedToUpdate) :
                                  FedToUpdate[i].fed + emitterLast'.delta.deltaTime
                                    < FedToUpdate[i].maxLife})]_vars

\* an update with delta 30 after one with delta 20 expired a particle of lifetime 50
C20_Witness ==
    /\ particleLast.op = "update"
    /\ particleLast.arg = 30
    /\ ~particleLast.alive
    /\ particleObjs[particleLast.id].lifetime = 50
    /\ particleFed[particleLast.id] = 50
    /\ ~particleObjs[particleLast.id].active
    /\ particleLast.id \in SeqToSet(particlePool)

(***************************************************************************)
(* AudioManager: the state machine                                         *)
(***************************************************************************)
\* the ids a caller loads and plays
SoundIds == {"shoot"}

AudioAdvances == {100}

AudioInit ==
    /\ OutsideAudioIdle
    /\ audioManager = NewAudioManager
    /\ audioEnv = [now |-> 0, created |-> 0, steps |-> 0, clock |-> 0]
    /\ audioLast = AudioStep("new", << >>, 0)

\* time passes
AudioClock ==
    /\ audioEnv.steps < MaxAudioSteps
    /\ audioEnv.clock < MaxAudioClock
    /\ \E d \in AudioAdvances :
         audioEnv' = [audioEnv EXCEPT !.now = @ + d, !.steps = @ + 1, !.clock = @ + 1]
    /\ audioLast' = AudioStep("clock", << >>, Len(audioManager.activeAudio))
    /\ UNCHANGED <<audioManager, outsideAudio>>

\* loadAudio(id, url) has resolved
AudioLoad ==
    /\ audioEnv.steps < MaxAudioSteps
    /\ ~audioManager.disposed
    /\ \E id \in SoundIds :
         /\ id \notin audioManager.audioBuffers
         /\ audioManager' = LoadAudio(audioManager, id)
    /\ audioEnv' = [audioEnv EXCEPT !.steps = @ + 1]
    /\ audioLast' = AudioStep("loadAudio", << >>, Len(audioManager.activeAudio))
    /\ UNCHANGED outsideAudio

\* playSoundEffect(id)
AudioPlay ==
    /\ audioEnv.steps < MaxAudioSteps
    /\ ~audioManager.disposed
    /\ \E id \in SoundIds :
         LET r == PlaySoundEffect(audioManager, id, audioEnv.created + 1, audioEnv.now) IN
         /\ audioManager' = r.am
         /\ audioEnv' = [audioEnv EXCEPT
                           !.created = IF r.created THEN @ + 1 ELSE @,
                           !.steps = @ + 1]
         /\ audioLast' = AudioStep("playSoundEffect", r.calls, Len(audioManager.activeAudio))
    /\ UNCHANGED outsideAudio

\* a playing sound reaches its end: its onended handler runs
AudioEnded ==
    /\ audioEnv.steps < MaxAudioSteps
    /\ \E i \in 1..Len(audioManager.activeAudio) :
         /\ audioManager' = SoundEnded(audioManager, i)
         /\ audioLast' = AudioStep("ended", << >>, Len(audioManager.activeAudio))
    /\ audioEnv' = [audioEnv EXCEPT !.steps = @ + 1]
    /\ UNCHANGED outsideAudio

\* stopAll()
AudioStopAll ==
    /\ audioEnv.steps < MaxAudioSteps
    /\ ~audioManager.disposed
    /\ LET r == StopAll(audioManager) IN
         /\ audioManager' = r.am
         /\ audioLast' = AudioStep("stopAll", r.calls, Len(audioManager.activeAudio))
    /\ audioEnv' = [audioEnv EXCEPT !.steps = @ + 1]
    /\ UNCHANGED outsideAudio

\* dispose()
AudioDisposeCall ==
    /\ audioEnv.steps < MaxAudioSteps
    /\ ~audioManager.disposed
    /\ LET r == AudioDispose(audioManager) IN
         /\ audioManager' = r.am
         /\ audioLast' = AudioStep("dispose", r.calls, Len(audioManager.activeAudio))
    /\ audioEnv' = [audioEnv EXCEPT !.steps = @ + 1]
    /\ UNCHANGED outsideAudio

AudioNext ==
    \/ AudioClock
    \/ AudioLoad
    \/ AudioPlay
    \/ AudioEnded
    \/ AudioStopAll
    \/ AudioDisposeCall

SpecAudio == AudioInit /\ [][AudioNext]_vars

(***************************************************************************)
(* AudioManager: properties                                                *)
(***************************************************************************)
\* C31: _activeAudio never holds more than MAX_CONCURRENT_SOUNDS sounds, and a
\* playSoundEffect call made at the limit first stops the oldest active sound
\* and removes it, before it adds the new one.
C31_ConcurrentSoundsCapped ==
    [][/\ Len(audioManager'.activeAudio) <= MAX_CONCURRENT_SOUNDS
       /\ (/\ audioEnv'.steps # audioEnv.steps
           /\ audioLast'.op = "playSoundEffect"
           /\ Len(audioManager.activeAudio) >= MAX_CONCURRENT_SOUNDS)
            => LET oldest == audioManager.activeAudio[OldestIndex(audioManager.activeAudio)]
               IN  /\ \A i \in 1..Len(audioManager.activeAudio) :
                        oldest.startTime <= audioManager.activeAudio[i].startTime
                   /\ Len(audioLast'.calls) >= 2
                   /\ audioLast'.calls[1] = SourceCall("source.stop", oldest.source)
                   /\ audioLast'.calls[2] = SourceCall("activeAudio.delete", oldest.source)
                   /\ oldest \notin SeqToSet(audioManager'.activeAudio)
                   /\ \A i \in 1..Len(audioManager.activeAudio) :
                        audioManager.activeAudio[i] # oldest
                          => audioManager.activeAudio[i] \in SeqToSet(audioManager'.activeAudio)]_vars

\* a ninth sound was played while eight were active: the first one was stopped
C31_Witness ==
    /\ audioLast.op = "playSoundEffect"
    /\ audioLast.before = MAX_CONCURRENT_SOUNDS
    /\ Len(audioManager.activeAudio) = MAX_CONCURRENT_SOUNDS
    /\ CallsTo(audioLast.calls, "source.stop") = 1
    /\ CallsTo(audioLast.calls, "activeAudio.add") = 1

(***************************************************************************)
(* AudioSettings: the state machine                                        *)
(***************************************************************************)
\* the volumes handed to the setters, in percent
VolumeChoices == {-50, 0, 30, 100, 150}

\* the constructor, on a storage that holds nothing yet
SettingsInit ==
    /\ OutsideSettingsIdle
    /\ localStorage = EmptyStorage
    /\ audioSettings = LoadSettings(localStorage)
    /\ settingsLast = SettingsStep("new", "none", 0, FALSE)
    /\ settingsSteps = 0

SettingsSetVolume ==
    /\ settingsSteps < MaxSettingsSteps
    /\ \E key \in {"masterVolume", "musicVolume", "sfxVolume"}, volume \in VolumeChoices :
         LET r == SetVolume(audioSettings, localStorage, key, volume) IN
         /\ audioSettings' = r.settings
         /\ localStorage' = r.storage
         /\ settingsLast' = SettingsStep("setVolume", key, Number(volume), r.threw)
    /\ settingsSteps' = settingsSteps + 1
    /\ UNCHANGED outsideSettings

SettingsToggleMute ==
    /\ settingsSteps < MaxSettingsSteps
    /\ \E key \in {"musicMuted", "sfxMuted"} :
         LET r == ToggleMute(audioSettings, localStorage, key) IN
         /\ audioSettings' = r.settings
         /\ localStorage' = r.storage
         /\ settingsLast' = SettingsStep("toggleMute", key, Boolean(r.settings[key]), r.threw)
    /\ settingsSteps' = settingsSteps + 1
    /\ UNCHANGED outsideSettings

\* the page is loaded again: the module constructs the singleton anew
SettingsReload ==
    /\ settingsSteps < MaxSettingsSteps
    /\ audioSettings' = LoadSettings(localStorage)
    /\ settingsLast' = SettingsStep("load", "none", 0, FALSE)
    /\ settingsSteps' = settingsSteps + 1
    /\ UNCHANGED <<localStorage, outsideSettings>>

SettingsNext ==
    \/ SettingsSetVolume
    \/ SettingsToggleMute
    \/ SettingsReload

SpecSettings == SettingsInit /\ [][SettingsNext]_vars

(***************************************************************************)
(* AudioSettings: properties                                               *)
(***************************************************************************)
\* C32: after a setter has changed a volume or a mute state, loading the
\* settings from the storage gives the value that was set.
C32_SetThenLoad ==
    (settingsLast.op \in {"setVolume", "toggleMute"} /\ ~settingsLast.threw)
      => /\ audioSettings[settingsLast.key] = settingsLast.value.value
         /\ LoadSettings(localStorage)[settingsLast.key] = settingsLast.value.value

(***************************************************************************)
(* BackgroundMusic: the state machine                                      *)
(***************************************************************************)
TrackUrls == {"menu.mp3", "level.mp3"}

MusicInit ==
    /\ OutsideMusicIdle
    /\ music = NewBackgroundMusic
    /\ musicTracks = << >>
    /\ musicTasks = << >>
    /\ musicCalls = 0

\* the caller calls play(url)
MusicPlayCall ==
    /\ musicCalls < MaxMusicCalls
    /\ \E url \in TrackUrls :
         LET r == PlayCall(music, musicTracks, musicTasks, url) IN
         /\ music' = r.m
         /\ musicTracks' = r.tracks
         /\ musicTasks' = r.tasks
    /\ musicCalls' = musicCalls + 1
    /\ UNCHANGED outsideMusic

\* the caller calls stop()
MusicStopCall ==
    /\ musicCalls < MaxMusicCalls
    /\ LET r == StopCall(music, musicTracks, musicTasks) IN
         /\ music' = r.m
         /\ musicTracks' = r.tracks
         /\ musicTasks' = r.tasks
    /\ musicCalls' = musicCalls + 1
    /\ UNCHANGED outsideMusic

\* the caller calls dispose()
MusicDisposeCall ==
    /\ musicCalls < MaxMusicCalls
    /\ LET r == MusicDispose(music, musicTracks) IN
         /\ music' = r.m
         /\ musicTracks' = r.tracks
    /\ musicCalls' = musicCalls + 1
    /\ UNCHANGED <<musicTasks, outsideMusic>>

\* what a waiting call awaits settles, and the call runs to its next await
MusicResume ==
    /\ \E i \in 1..Len(musicTasks), ok \in BOOLEAN :
         LET task == musicTasks[i]
             r == IF task.kind = "stop" THEN StopFadedOut(music, musicTracks, musicTasks, i)
                  ELSE IF task.pc = "loading"
                  THEN PlayLoaded(music, musicTracks, musicTasks, i, ok)
                  ELSE IF task.pc = "fadingOut"
                  THEN PlayFadedOut(music, musicTracks, musicTasks, i)
                  ELSE IF task.pc = "starting"
                  THEN PlayStarted(music, musicTracks, musicTasks, i, ok)
                  ELSE PlayFadedIn(music, musicTracks, musicTasks, i)
         IN  \* only a load and a start can fail
             /\ ~ok => (task.kind = "play" /\ task.pc \in {"loading", "starting"})
             /\ music' = r.m
             /\ musicTracks' = r.tracks
             /\ musicTasks' = r.tasks
    /\ UNCHANGED <<musicCalls, outsideMusic>>

MusicNext ==
    \/ MusicPlayCall
    \/ MusicStopCall
    \/ MusicDisposeCall
    \/ MusicResume

SpecMusic == MusicInit /\ [][MusicNext]_vars

(***************************************************************************)
(* BackgroundMusic: properties                                             *)
(***************************************************************************)
\* C39: at most one track is playing, and every track that is playing is the
\* current track.
C39_OneTrackPlaying ==
    /\ Cardinality({t \in 1..Len(musicTracks) : musicTracks[t].state = "playing"}) <= 1
    /\ \A t \in 1..Len(musicTracks) :
         musicTracks[t].state = "playing" => t = music.currentTrack

\* C40: when no play() or stop() call is in progress, isPlaying() is true only
\* if the current track exists, has not been released and is playing.
C40_IsPlayingMeansPlaying ==
    (musicTasks = << >> /\ music.isPlaying)
      => /\ music.currentTrack # NoTrack
         /\ ~musicTracks[music.currentTrack].released
         /\ musicTracks[music.currentTrack].state = "playing"

====
